---- MODULE Spec2Model ----
(***************************************************************************)
(* AccountManager of rust_mcp_server: the account map and task-id index,   *)
(* the configuration-diff hot reload with the per-venue websocket          *)
(* handshake / teardown it drives, and the reconciliation of account       *)
(* weights against the shared target table McpServer writes.               *)
(*                                                                         *)
(* A step of the model is one segment of a handler between two suspension  *)
(* points of the reload (a command send with its awaited acknowledgement,  *)
(* a teardown send), or one whole handler for the update tick, the         *)
(* prediction and the order / position events.  The handlers take          *)
(* &mut self, so no second handler runs while one is suspended: pc names   *)
(* the position of the one running handler.  log records, in program       *)
(* order, every mutation of the two maps and every command issued by the   *)
(* running handler; orders records its place_order calls.                  *)
(***************************************************************************)
EXTENDS Integers, Sequences, FiniteSets, TLC

VARIABLES
    account_infos,  \* AccountManager.account_infos : account_id -> AccountInfo
    task_index,     \* AccountManager.task_index    : task id -> account_id
    pc,             \* position of the running handler
    handler,        \* which handler runs, "none" between handlers
    new_map,        \* reload_accounts: new_map
    added,          \* reload_accounts: ids of new_ids.difference(old_ids) not yet visited
    removed,        \* reload_accounts: ids of old_ids.difference(new_ids) not yet visited
    retained,       \* reload_accounts: ids of new_ids.intersection(old_ids) not yet visited
    ctx,            \* the loop of reload_accounts the current call was made from
    conn_acc,       \* ws_connect_account / handle_*_account_event: acc
    hs_ch,          \* handle_*_account_event: channel
    hs_step,        \* handle_*_account_event: index of the command awaiting its ack
    disc_acc,       \* ws_disconnect_account: acc
    disc_todo,      \* ws_disconnect_account: rest of close_list
    result,         \* result of the handler that returned: "none", "Ok", "Err"
    log,            \* mutations and commands of the running handler, in order
    instrument_infos, \* AccountManager.instrument_infos : (inst, market) -> InstrumentInfo
    target_weights, \* the shared TargetWeights table : inst -> (price, raw weight)
    px,             \* McpServer.px : inst -> last trade price
    orders,         \* place_order calls of the running handler, in order
    msg,            \* the InfraMsg the running event handler was called with
    env             \* what the venues and the model server do: "quiet" or "trading"

vars == <<account_infos, task_index, pc, handler, new_map, added, removed, retained,
          ctx, conn_acc, hs_ch, hs_step, disc_acc, disc_todo, result, log,
          instrument_infos, target_weights, px, orders, msg, env>>

-----------------------------------------------------------------------------
(* Bounds of the model *)

NumAccounts == 2
NumSpareTasks == 1
NumInstruments == 1
NumTradingAccounts == 1
MaxPositions == 2

(* Program constants *)

OrdersTaskId == 1100
BalPosTaskId == 1150

AccountIds == 1..NumAccounts

SpareTaskIds == (BalPosTaskId + 1)..(BalPosTaskId + NumSpareTasks)

TaskIds == {OrdersTaskId, BalPosTaskId} \cup SpareTaskIds

Channels == <<"AccountOrders", "AccountBalAndPos">>

\* The websocket tasks the environment is built with: one command handle each.
WsHandles == {<<"AccountOrders", OrdersTaskId>>, <<"AccountBalAndPos", BalPosTaskId>>}

\* Every (channel, task id) having a command handle
HasHandle_Always(ch, task) == TRUE

\* CommandEmitter::find_ws_handle(channel, task_id) is Some
HasHandle(ch, task) == <<ch, task>> \in WsHandles

Exchanges == {"okx", "binance_um", "binance_cm"}

\* The (order feed, balance/position feed) task ids a configuration entry may carry.
TaskPairs == ({OrdersTaskId} \cup SpareTaskIds) \X ({BalPosTaskId} \cup SpareTaskIds)

EntriesFor(id) ==
    {[account_id |-> id, exchange |-> x,
      account_orders_task_id |-> p[1], account_bal_pos_task_id |-> p[2]]
        : x \in Exchanges, p \in TaskPairs}
    \cup {[account_id |-> id, exchange |-> "unknown",
           account_orders_task_id |-> OrdersTaskId, account_bal_pos_task_id |-> BalPosTaskId]}

\* Contents of account_config.json that parse: entries with unique account ids.
Configs ==
    UNION {{f \in [S -> UNION {EntriesFor(i) : i \in S}] : \A i \in S : f[i].account_id = i}
              : S \in SUBSET AccountIds}

-----------------------------------------------------------------------------
(* Maps and the log *)

EmptyMap == [x \in {} |-> 0]

MapPut(m, k, v) == [x \in (DOMAIN m) \cup {k} |-> IF x = k THEN v ELSE m[x]]

MapDel(m, k) == [x \in (DOMAIN m) \ {k} |-> m[x]]

\* One logged statement: a map mutation or a step of a handshake / teardown.
Ev(e, acc, ch) ==
    [ev |-> e, acc |-> acc.account_id, ch |-> ch, client |-> acc.client,
     task |-> CASE ch = "AccountOrders" -> acc.account_orders_task_id
                [] ch = "AccountBalAndPos" -> acc.account_bal_pos_task_id
                [] OTHER -> 0]

\* The effect of a run of map statements on (account_infos, task_index); rec is the
\* AccountInfo an insert stores.
RECURSIVE Replay(_, _, _, _)
Replay(ai, ti, evs, rec) ==
    IF evs = <<>> THEN [ai |-> ai, ti |-> ti]
    ELSE LET e == Head(evs)
         IN CASE e.ev = "idx_insert" -> Replay(ai, MapPut(ti, e.task, e.acc), Tail(evs), rec)
              [] e.ev = "idx_remove" -> Replay(ai, MapDel(ti, e.task), Tail(evs), rec)
              [] e.ev \in {"acc_insert", "acc_replace"} ->
                    Replay(MapPut(ai, e.acc, rec), ti, Tail(evs), rec)
              [] e.ev = "acc_remove" -> Replay(MapDel(ai, e.acc), ti, Tail(evs), rec)

-----------------------------------------------------------------------------
(* AccountInfo *)

KnownExchange(cfg) == cfg.exchange \in {"okx", "binance_um", "binance_cm"}

ClientOf(cfg) ==
    CASE cfg.exchange = "okx" -> "Okx"
      [] cfg.exchange = "binance_um" -> "BinanceUm"
      [] cfg.exchange = "binance_cm" -> "BinanceCm"

\* AccountInfo::from_config, the Ok case
FromConfig(cfg) ==
    [account_id |-> cfg.account_id,
     client |-> ClientOf(cfg),
     acc_weights |-> EmptyMap,
     inst_mark_price |-> EmptyMap,
     total_equity |-> 0,
     account_orders_task_id |-> cfg.account_orders_task_id,
     account_bal_pos_task_id |-> cfg.account_bal_pos_task_id]

ConfigChanged(a, b) ==
    \/ a.account_id # b.account_id
    \/ a.account_orders_task_id # b.account_orders_task_id
    \/ a.account_bal_pos_task_id # b.account_bal_pos_task_id

TaskOf(acc, ch) ==
    IF ch = "AccountOrders" THEN acc.account_orders_task_id ELSE acc.account_bal_pos_task_id

\* add_account without the insert of the balance/position task id
AddAccount_NoBalPosIndex(acc) ==
    <<Ev("idx_insert", acc, "AccountOrders"),
      Ev("acc_insert", acc, "-")>>

\* AccountManager::add_account: its three statements in order
AddAccount(acc) ==
    <<Ev("idx_insert", acc, "AccountOrders"),
      Ev("idx_insert", acc, "AccountBalAndPos"),
      Ev("acc_insert", acc, "-")>>

\* The removal without task_index.remove of the balance/position task id
RemoveAccount_KeepsBalPosIndex(old_acc) ==
    <<Ev("acc_remove", old_acc, "-"),
      Ev("idx_remove", old_acc, "AccountOrders")>>

\* The removal without account_infos.remove
RemoveAccount_KeepsRecord(old_acc) ==
    <<Ev("idx_remove", old_acc, "AccountOrders"),
      Ev("idx_remove", old_acc, "AccountBalAndPos")>>

\* reload_accounts, lines 372-374: the statements that drop a deleted account
RemoveAccount(old_acc) ==
    <<Ev("acc_remove", old_acc, "-"),
      Ev("idx_remove", old_acc, "AccountOrders"),
      Ev("idx_remove", old_acc, "AccountBalAndPos")>>

\* The replacement without the removal of the old task ids
ReplaceAccount_KeepsOldIndex(old_acc, new_acc) ==
    <<Ev("acc_replace", new_acc, "-"),
      Ev("idx_insert", new_acc, "AccountOrders"),
      Ev("idx_insert", new_acc, "AccountBalAndPos")>>

\* The replacement without the insert of the new task ids
ReplaceAccount_NoNewIndex(old_acc, new_acc) ==
    <<Ev("acc_replace", new_acc, "-"),
      Ev("idx_remove", old_acc, "AccountOrders"),
      Ev("idx_remove", old_acc, "AccountBalAndPos")>>

\* reload_accounts, lines 402-409: the statements that replace a changed account
ReplaceAccount(old_acc, new_acc) ==
    <<Ev("acc_replace", new_acc, "-"),
      Ev("idx_remove", old_acc, "AccountOrders"),
      Ev("idx_remove", old_acc, "AccountBalAndPos"),
      Ev("idx_insert", new_acc, "AccountOrders"),
      Ev("idx_insert", new_acc, "AccountBalAndPos")>>

\* The OKX handshake without its login step
HandshakeSteps_SkipsLogin(client) ==
    IF client = "Okx" THEN <<"WsConnect", "subscribe">> ELSE <<"WsConnect">>

\* Every venue running the three-step handshake
HandshakeSteps_AlwaysLogin(client) == <<"WsConnect", "login", "subscribe">>

\* The commands one handshake sends, in order: handle_okx_account_event sends three,
\* handle_binance_account_event one.
HandshakeSteps(client) ==
    IF client = "Okx" THEN <<"WsConnect", "login", "subscribe">> ELSE <<"WsConnect">>

-----------------------------------------------------------------------------
(* Balances, positions, targets and sizing                                  *)
(*                                                                           *)
(* Weights are fixed-point numbers in units of 1/WeightUnit and order sizes,  *)
(* lot sizes and size limits in units of 1/QtyUnit; equity, prices, notionals *)
(* and position sizes are integers.                                          *)

\* compare_weights: diff.abs() > 0.01, in weight units
DiffThreshold == 100

\* The weight 1.0
WeightUnit == 100 * DiffThreshold

\* The size 1.0: order sizes are kept to one decimal place
QtyUnit == 10

\* process_weight: inst_notional < 6.0 on Binance UM
BinanceMinNotional == 6

AllInstruments == <<"BTC_USDT_PERP", "ETH_USDT_PERP", "DOGE_USDT_PERP">>

Instruments == {AllInstruments[i] : i \in 1..NumInstruments}

Markets == {"Okx", "BinanceUmFutures"}

Abs(x) == IF x < 0 THEN -x ELSE x

Max(a, b) == IF a > b THEN a ELSE b

Min(a, b) == IF a < b THEN a ELSE b

\* The rules a venue's metadata endpoint returns for an instrument: contract_value is
\* Some for OKX.
VenueRules(market) ==
    [lot_size |-> 1, min_lmt_size |-> 1, min_mkt_size |-> 1,
     max_lmt_size |-> 50, max_mkt_size |-> 50,
     contract_value |-> IF market = "Okx" THEN <<1>> ELSE <<>>]

InstrumentCatalog == [k \in Instruments \X Markets |-> VenueRules(k[2])]

\* Option::unwrap_or
UnwrapOr(opt, d) == IF opt = <<>> THEN d ELSE opt[1]

\* notional / total_equity when total_equity > f64::EPSILON, else 0.0
WeightOf(notional, total_equity) ==
    IF total_equity > 0 THEN (notional * WeightUnit) \div total_equity ELSE 0

\* normalize_to_string(size, lot_size): size rounded down to a multiple of lot_size
NormalizeToString(size, lot_size) == (size \div lot_size) * lot_size

\* A clamp without the upper limit
Clamp_NoUpper(x, lo, hi) == IF x < lo THEN lo ELSE x

\* f64::clamp
Clamp(x, lo, hi) == IF x < lo THEN lo ELSE IF x > hi THEN hi ELSE x

\* The quotient num / den of two non-negative f64 values, rounded down: a zero den
\* gives +inf for a positive num and NaN for a zero one.
Quotient(num, den) ==
    IF den # 0 THEN [kind |-> "finite", v |-> num \div den]
    ELSE IF num > 0 THEN [kind |-> "inf", v |-> 0]
    ELSE [kind |-> "nan", v |-> 0]

\* size.clamp(min_sz, max_sz) followed by normalize_to_string; a NaN passes the clamp.
ClampAndNormalize(q, info) ==
    LET min_sz == Max(info.min_lmt_size, info.min_mkt_size)
        max_sz == Min(info.max_lmt_size, info.max_mkt_size)
    IN CASE q.kind = "finite" ->
              [ok |-> TRUE, nan |-> FALSE,
               size |-> NormalizeToString(Clamp(q.v, min_sz, max_sz), info.lot_size)]
         [] q.kind = "inf" ->
              [ok |-> TRUE, nan |-> FALSE, size |-> NormalizeToString(max_sz, info.lot_size)]
         [] q.kind = "nan" -> [ok |-> TRUE, nan |-> TRUE, size |-> 0]

\* The price f64::INFINITY; every other price is a non-negative integer
PositiveInfinity == 0 - 1

\* notional / (price * ct_val) in units of 1/QtyUnit: a finite notional over an
\* infinite price is 0.0
SizeQuotient(scaled, price, ct_val) ==
    IF price = PositiveInfinity THEN [kind |-> "finite", v |-> 0]
    ELSE Quotient(scaled * QtyUnit, WeightUnit * price * ct_val)

\* calc_okx_order_size; scaled is notional * WeightUnit
CalcOkxOrderSize(price, scaled, info) ==
    IF info.contract_value = <<>> THEN [ok |-> FALSE, nan |-> FALSE, size |-> 0]
    ELSE ClampAndNormalize(SizeQuotient(scaled, price, info.contract_value[1]), info)

\* calc_binance_order_size; scaled is notional * WeightUnit
CalcBinanceOrderSize(price, scaled, info) ==
    ClampAndNormalize(SizeQuotient(scaled, price, 1), info)

MarketOf(client) == IF client = "Okx" THEN "Okx" ELSE "BinanceUmFutures"

\* A divisor that ignores the size of the table
InstCount_One(tw) == 1

\* compare_weights: target_weights.len().max(1)
InstCount(tw) == Max(Cardinality(DOMAIN tw), 1)

\* A threshold that admits a diff of exactly 0.01
Actionable_Inclusive(diff) == Abs(diff) >= DiffThreshold

\* compare_weights: diff.abs() > 0.01
Actionable(diff) == Abs(diff) > DiffThreshold

\* AccountInfo::compare_weights: every target's price becomes the account's mark
\* price; targets is computed_target_weights and diffs holds the instruments whose
\* diff exceeds the threshold.
CompareWeights(acc, tw) ==
    LET inst_count == InstCount(tw)
        marks == [i \in (DOMAIN acc.inst_mark_price) \cup (DOMAIN tw) |->
                     IF i \in DOMAIN tw THEN tw[i][1] ELSE acc.inst_mark_price[i]]
        target_w(i) == tw[i][2] \div inst_count
        diff(i) == target_w(i)
                   - (IF i \in DOMAIN acc.acc_weights THEN acc.acc_weights[i] ELSE 0)
        actionable == {i \in DOMAIN tw : Actionable(diff(i))}
    IN [acc |-> [acc EXCEPT !.inst_mark_price = marks],
        targets |-> [i \in DOMAIN tw |-> target_w(i)],
        diffs |-> [i \in actionable |-> diff(i)]]

\* A notional floor applied on every venue
SkipsSmallNotional_AnyVenue(client, scaled) == scaled < BinanceMinNotional * WeightUnit

\* process_weight: only the Binance UM arm tests inst_notional < 6.0; scaled is
\* inst_notional * WeightUnit
SkipsSmallNotional(client, scaled) ==
    client = "BinanceUm" /\ scaled < BinanceMinNotional * WeightUnit

\* A placement that leaves the weights alone
OptimisticUpdate_None(acc, inst, diff) == acc

\* A placement that stores the diff as the weight, whatever was held
OptimisticUpdate_Overwrites(acc, inst, diff) ==
    [acc EXCEPT !.acc_weights = MapPut(@, inst, diff)]

\* process_weight, the Ok arm of place_order: entry(inst).and_modify(+= diff).or_insert(diff)
OptimisticUpdate(acc, inst, diff) ==
    LET old_w == IF inst \in DOMAIN acc.acc_weights THEN acc.acc_weights[inst] ELSE 0
    IN [acc EXCEPT !.acc_weights = MapPut(@, inst, old_w + diff)]

\* One turn of `for (inst, diff) in diffs.iter()` of process_weight: the outcomes are
\* the account after the turn and the placement it attempted, if any.
PlaceOrder(acc, inst, diff, infos) ==
    LET key == <<inst, MarketOf(acc.client)>>
        scaled == Abs(diff * acc.total_equity)
        skip == {[acc |-> acc, orders |-> <<>>]}
    IN IF inst \notin DOMAIN acc.inst_mark_price THEN skip
       ELSE IF key \notin DOMAIN infos THEN skip
       ELSE IF SkipsSmallNotional(acc.client, scaled) THEN skip
       ELSE LET sz == IF acc.client = "Okx"
                      THEN CalcOkxOrderSize(acc.inst_mark_price[inst], scaled, infos[key])
                      ELSE CalcBinanceOrderSize(acc.inst_mark_price[inst], scaled, infos[key])
                order(placed) ==
                    [acc |-> acc.account_id, inst |-> inst,
                     side |-> IF diff > 0 THEN "BUY" ELSE "SELL",
                     size |-> sz.size, nan |-> sz.nan, placed |-> placed]
            IN IF ~sz.ok THEN skip
               ELSE {[acc |-> OptimisticUpdate(acc, inst, diff), orders |-> <<order(TRUE)>>],
                     [acc |-> acc, orders |-> <<order(FALSE)>>]}

\* A loop over diffs that a rejected placement ends
RECURSIVE PlaceOrders_StopsAtFailure(_, _, _, _, _)
PlaceOrders_StopsAtFailure(acc, diffs, todo, infos, os) ==
    IF todo = {} \/ (os # <<>> /\ ~os[Len(os)].placed) THEN {[acc |-> acc, orders |-> os]}
    ELSE LET inst == CHOOSE i \in todo : TRUE
         IN UNION {PlaceOrders_StopsAtFailure(o.acc, diffs, todo \ {inst}, infos,
                                              os \o o.orders)
                      : o \in PlaceOrder(acc, inst, diffs[inst], infos)}

\* The loop over diffs; the turns touch different instruments, so the loop is taken
\* in one order.
RECURSIVE PlaceOrders(_, _, _, _, _)
PlaceOrders(acc, diffs, todo, infos, os) ==
    IF todo = {} THEN {[acc |-> acc, orders |-> os]}
    ELSE LET inst == CHOOSE i \in todo : TRUE
         IN UNION {PlaceOrders(o.acc, diffs, todo \ {inst}, infos, os \o o.orders)
                      : o \in PlaceOrder(acc, inst, diffs[inst], infos)}

\* A pass that ends by dropping the weights of the instruments without a target, as
\* the position refresh drops those without a position
ProcessWeight_RetainsTargeted(acc, tw, infos) ==
    LET cmp == CompareWeights(acc, tw)
        pruned(a) ==
            [a EXCEPT !.acc_weights = [i \in (DOMAIN a.acc_weights) \cap (DOMAIN tw) |->
                                          a.acc_weights[i]]]
    IN IF acc.client \in {"BinanceUm", "Okx"}
       THEN {[acc |-> pruned(o.acc), orders |-> o.orders]
                : o \in PlaceOrders(cmp.acc, cmp.diffs, DOMAIN cmp.diffs, infos, <<>>)}
       ELSE {[acc |-> pruned(cmp.acc), orders |-> <<>>]}

\* AccountInfo::process_weight; it returns Ok on every path
ProcessWeight(acc, tw, infos) ==
    LET cmp == CompareWeights(acc, tw)
    IN IF acc.client \in {"BinanceUm", "Okx"}
       THEN PlaceOrders(cmp.acc, cmp.diffs, DOMAIN cmp.diffs, infos, <<>>)
       ELSE {[acc |-> cmp.acc, orders |-> <<>>]}

\* A balance refresh that takes a missing USDT entry for an equity of 0
RestUpdateAccBalance_MissingIsZero(acc, reply) ==
    LET usdt == {n \in DOMAIN reply.balances : reply.balances[n].asset \in {"USDT", "usdt"}}
    IN IF ~reply.ok \/ usdt = {} THEN [ok |-> TRUE, acc |-> [acc EXCEPT !.total_equity = 0]]
       ELSE LET first == CHOOSE n \in usdt : \A m \in usdt : n <= m
            IN [ok |-> TRUE, acc |-> [acc EXCEPT !.total_equity = reply.balances[first].total]]

\* AccountInfo::rest_update_acc_balance on the reply of get_balance
RestUpdateAccBalance(acc, reply) ==
    LET usdt == {n \in DOMAIN reply.balances : reply.balances[n].asset \in {"USDT", "usdt"}}
    IN IF ~reply.ok \/ usdt = {} THEN [ok |-> FALSE, acc |-> acc]
       ELSE LET first == CHOOSE n \in usdt : \A m \in usdt : n <= m
            IN [ok |-> TRUE, acc |-> [acc EXCEPT !.total_equity = reply.balances[first].total]]

\* The notional of one position, lines 555-567
RestPosNotional(acc, pos, infos) ==
    CASE acc.client = "BinanceUm" -> pos.size * pos.mark_price
      [] acc.client = "Okx" ->
            IF <<pos.inst, "Okx">> \in DOMAIN infos
            THEN pos.size * pos.mark_price * UnwrapOr(infos[<<pos.inst, "Okx">>].contract_value, 1)
            ELSE 0
      [] OTHER -> 0

\* A refresh without the retain of line 585: weights of absent instruments stay
RestUpdateAccPosWeight_KeepsAbsent(acc, reply, infos) ==
    LET ps == reply.positions
        held == {ps[n].inst : n \in DOMAIN ps}
        RECURSIVE Sum(_, _)
        Sum(i, n) == IF n = 0 THEN 0
                     ELSE Sum(i, n - 1)
                          + (IF ps[n].inst = i THEN RestPosNotional(acc, ps[n], infos) ELSE 0)
    IN IF ~reply.ok THEN [ok |-> FALSE, acc |-> acc]
       ELSE [ok |-> TRUE,
             acc |-> [acc EXCEPT !.acc_weights =
                         [i \in held \cup DOMAIN acc.acc_weights |->
                             IF i \in held THEN WeightOf(Sum(i, Len(ps)), acc.total_equity)
                             ELSE acc.acc_weights[i]]]]

\* AccountInfo::rest_update_acc_pos_weight on the reply of get_positions
RestUpdateAccPosWeight(acc, reply, infos) ==
    LET ps == reply.positions
        held == {ps[n].inst : n \in DOMAIN ps}
        last(i) == CHOOSE n \in DOMAIN ps : ps[n].inst = i /\ \A m \in DOMAIN ps :
                                               ps[m].inst = i => m <= n
        RECURSIVE Sum(_, _)
        Sum(i, n) == IF n = 0 THEN 0
                     ELSE Sum(i, n - 1)
                          + (IF ps[n].inst = i THEN RestPosNotional(acc, ps[n], infos) ELSE 0)
        marks == [i \in (DOMAIN acc.inst_mark_price) \cup held |->
                     IF i \in held THEN ps[last(i)].mark_price ELSE acc.inst_mark_price[i]]
    IN IF ~reply.ok THEN [ok |-> FALSE, acc |-> acc]
       ELSE [ok |-> TRUE,
             acc |-> [acc EXCEPT !.inst_mark_price = marks,
                                 !.acc_weights = [i \in held |->
                                     WeightOf(Sum(i, Len(ps)), acc.total_equity)]]]

\* AccountInfo::ws_update_acc_position
WsUpdateAccPosition(acc, pos, inst_info) ==
    LET mark_price == IF pos.inst \in DOMAIN acc.inst_mark_price
                      THEN acc.inst_mark_price[pos.inst] ELSE pos.avg_price
        pos_notional ==
            CASE acc.client = "BinanceUm" -> pos.size * mark_price
              [] acc.client = "Okx" ->
                    pos.size * mark_price * UnwrapOr(inst_info.contract_value, 1)
              [] OTHER -> 0
    IN [acc EXCEPT !.acc_weights = MapPut(@, pos.inst, WeightOf(pos_notional, acc.total_equity))]

-----------------------------------------------------------------------------
(* What the handlers receive                                                 *)
(*                                                                           *)
(* In the quiet environment the venues report empty accounts and no model    *)
(* server produces targets; configurations range over every venue and task   *)
(* id.  In the trading environment accounts hold balances and positions and  *)
(* targets arrive; configurations carry task ids without a websocket task.   *)

SeqsUpTo(S, n) == UNION {[1..k -> S] : k \in 0..n}

TradingConfigs ==
    {cfg \in Configs : \A i \in DOMAIN cfg :
        /\ i <= NumTradingAccounts
        /\ cfg[i].exchange \in {"okx", "binance_um"}
        /\ cfg[i].account_orders_task_id \in SpareTaskIds
        /\ cfg[i].account_bal_pos_task_id \in SpareTaskIds}

ConfigsOf(e) == IF e = "quiet" THEN Configs ELSE TradingConfigs

\* Replies of get_balance
BalanceReplies(e) ==
    {[ok |-> FALSE, balances |-> <<>>], [ok |-> TRUE, balances |-> <<>>],
     [ok |-> TRUE, balances |-> <<[asset |-> "USDT", total |-> 0]>>]}
    \cup (IF e = "quiet" THEN {}
          ELSE {[ok |-> TRUE, balances |-> <<[asset |-> "usdt", total |-> 1000]>>]})

RestPositions == {[inst |-> i, size |-> 2, mark_price |-> 100] : i \in Instruments}

\* Replies of get_positions
PositionReplies(e) ==
    {[ok |-> FALSE, positions |-> <<>>]}
    \cup {[ok |-> TRUE, positions |-> ps]
            : ps \in IF e = "quiet" THEN {<<>>} ELSE SeqsUpTo(RestPositions, MaxPositions)}

\* Outcomes of the two get_instrument_info calls of init_inst_info
InstInfoReplies(e) == IF e = "quiet" THEN {TRUE} ELSE {TRUE, FALSE}

WsPositions == {[inst |-> i, size |-> 1, avg_price |-> 100] : i \in Instruments}

\* msg.data of on_acc_bal_pos: at most one WsAccBalPos
BalPosData(e) ==
    {<<>>} \cup {<<[market |-> m, positions |-> ps]>>
                   : m \in Markets,
                     ps \in IF e = "quiet" THEN {<<>>} ELSE SeqsUpTo(WsPositions, MaxPositions)}

\* msg.data of on_acc_order: at most one WsAccOrder
AccOrderData == {<<>>} \cup {<<[inst |-> i, market |-> m]>> : i \in Instruments, m \in Markets}

\* The metadata of the AltTensor messages the model server receives.  cmd and inst are
\* "-" when the key is missing; target is what the parse of target_position or
\* pos_weight gives, 0 when the key is missing or does not parse.
PredMsgs(e) ==
    IF e = "quiet" THEN {}
    ELSE {[error |-> FALSE, cmd |-> "adjust_position", inst |-> i, target |-> t]
             : i \in Instruments \cup {"-"}, t \in {0, WeightUnit}}
         \cup {[error |-> err, cmd |-> c, inst |-> i, target |-> WeightUnit]
                 : err \in BOOLEAN, c \in {"adjust_position", "noop", "other", "-"},
                   i \in Instruments}

\* Trades on_trade receives
Trades(e) == IF e = "quiet" THEN {} ELSE {[inst |-> i, price |-> 100] : i \in Instruments}

\* The placements of one call, marked with the call that made them
Via(call, os) == [n \in DOMAIN os |-> os[n] @@ [via |-> call]]

\* One turn of the loop of update_accounts, lines 309-340
UpdateAccount(acc, tw, infos, e) ==
    UNION {LET bal == RestUpdateAccBalance(acc, b)
           IN IF ~bal.ok THEN {[acc |-> acc, orders |-> <<>>]}
              ELSE UNION {LET pos == RestUpdateAccPosWeight(bal.acc, r, infos)
                          IN IF ~pos.ok THEN {[acc |-> bal.acc, orders |-> <<>>]}
                             ELSE ProcessWeight(pos.acc, tw, infos)
                             : r \in PositionReplies(e)}
             : b \in BalanceReplies(e)}

\* AccountManager::update_accounts: the accounts are independent of each other, so
\* the loop is taken in one order.
RECURSIVE UpdateAccounts(_, _, _, _, _, _)
UpdateAccounts(ai, todo, tw, infos, e, os) ==
    IF todo = {} THEN {[ai |-> ai, orders |-> os]}
    ELSE LET id == CHOOSE i \in todo : \A j \in todo : i <= j
         IN UNION {UpdateAccounts([ai EXCEPT ![id] = o.acc], todo \ {id}, tw, infos, e,
                                  os \o o.orders)
                      : o \in UpdateAccount(ai[id], tw, infos, e)}

\* AccountManager::process_weights
RECURSIVE ProcessWeights(_, _, _, _, _)
ProcessWeights(ai, todo, tw, infos, os) ==
    IF todo = {} THEN {[ai |-> ai, orders |-> os]}
    ELSE LET id == CHOOSE i \in todo : \A j \in todo : i <= j
         IN UNION {ProcessWeights([ai EXCEPT ![id] = o.acc], todo \ {id}, tw, infos,
                                  os \o o.orders)
                      : o \in ProcessWeight(ai[id], tw, infos)}

-----------------------------------------------------------------------------
(* Initial state: AccountManager::new *)

\* No event is being handled
NoMsg == [task_id |-> 0, channel |-> "-", data |-> <<>>]

NoAccount ==
    [account_id |-> 0, client |-> "None", acc_weights |-> EmptyMap,
     inst_mark_price |-> EmptyMap, total_equity |-> 0,
     account_orders_task_id |-> 0, account_bal_pos_task_id |-> 0]

Init ==
    /\ account_infos = EmptyMap
    /\ task_index = EmptyMap
    /\ pc = "new"
    /\ handler = "none"
    /\ new_map = EmptyMap
    /\ added = {}
    /\ removed = {}
    /\ retained = {}
    /\ ctx = "none"
    /\ conn_acc = NoAccount
    /\ hs_ch = "-"
    /\ hs_step = 0
    /\ disc_acc = NoAccount
    /\ disc_todo = <<>>
    /\ result = "none"
    /\ log = <<>>
    /\ instrument_infos = EmptyMap
    /\ target_weights = EmptyMap
    /\ px = EmptyMap
    /\ orders = <<>>
    /\ msg = NoMsg
    /\ env \in {"quiet", "trading"}

\* The registry handlers leave the catalog, the targets and the prices alone and
\* place no order.
PortfolioUnchanged == UNCHANGED <<instrument_infos, target_weights, px, orders, msg, env>>

ReloadLocalsUnchanged == UNCHANGED <<new_map, added, removed, retained>>

CallLocalsUnchanged == UNCHANGED <<ctx, conn_acc, hs_ch, hs_step, disc_acc, disc_todo>>

\* The handler returns res to its caller in acc_core.rs, which only logs an Err.
Finish(res) ==
    /\ pc' = "returned"
    /\ result' = res

\* The host takes the next event.
Return ==
    /\ pc = "returned"
    /\ pc' = "idle"
    /\ handler' = "none"
    /\ new_map' = EmptyMap
    /\ added' = {}
    /\ removed' = {}
    /\ retained' = {}
    /\ ctx' = "none"
    /\ conn_acc' = NoAccount
    /\ hs_ch' = "-"
    /\ hs_step' = 0
    /\ disc_acc' = NoAccount
    /\ disc_todo' = <<>>
    /\ result' = "none"
    /\ log' = <<>>
    /\ orders' = <<>>
    /\ msg' = NoMsg
    /\ UNCHANGED <<account_infos, task_index, instrument_infos, target_weights, px, env>>

Perms(S) ==
    {s \in [1..Cardinality(S) -> S] : \A i, j \in 1..Cardinality(S) : i # j => s[i] # s[j]}

\* AccountManager::load_all_accounts over the entries of the file, in file order:
\* the first entry from_config rejects ends the load with Err, the accounts before it
\* stay.
RECURSIVE LoadAllAccounts(_, _, _, _)
LoadAllAccounts(entries, ai, ti, evs) ==
    IF entries = <<>> THEN [ai |-> ai, ti |-> ti, evs |-> evs, res |-> "Ok"]
    ELSE IF ~KnownExchange(Head(entries)) THEN [ai |-> ai, ti |-> ti, evs |-> evs, res |-> "Err"]
    ELSE LET acc == FromConfig(Head(entries))
             st == Replay(ai, ti, AddAccount(acc), acc)
         IN LoadAllAccounts(Tail(entries), st.ai, st.ti, evs \o AddAccount(acc))

\* Strategy::initialize: load_all_accounts, init_inst_info, update_accounts; an Err of
\* any of the three is logged and the next one runs.  result keeps what
\* load_all_accounts returned.
Initialize ==
    /\ pc = "new"
    /\ handler' = "initialize"
    /\ \E loaded \in
            UNION {{LoadAllAccounts([i \in 1..Len(order) |-> cfg[order[i]]],
                                    account_infos, task_index, <<>>)
                       : order \in Perms(DOMAIN cfg)} : cfg \in ConfigsOf(env)}
            \cup {[ai |-> account_infos, ti |-> task_index, evs |-> <<>>, res |-> "Err"]} :
          \E fetched \in InstInfoReplies(env) :
             LET infos == IF fetched THEN InstrumentCatalog ELSE instrument_infos
             IN \E u \in UpdateAccounts(loaded.ai, DOMAIN loaded.ai, target_weights, infos,
                                        env, <<>>) :
                   /\ account_infos' = u.ai
                   /\ task_index' = loaded.ti
                   /\ log' = loaded.evs
                   /\ instrument_infos' = infos
                   /\ orders' = Via("update_accounts", u.orders)
                   /\ Finish(loaded.res)
    /\ UNCHANGED <<target_weights, px, msg, env>>
    /\ ReloadLocalsUnchanged
    /\ CallLocalsUnchanged

-----------------------------------------------------------------------------
(* reload_accounts *)

\* Line 346: load_account_config()? fails
ReloadLoadError ==
    /\ pc = "idle"
    /\ handler' = "reload"
    /\ Finish("Err")
    /\ UNCHANGED <<account_infos, task_index, log>>
    /\ ReloadLocalsUnchanged
    /\ CallLocalsUnchanged
    /\ PortfolioUnchanged

\* reload_accounts storing each account as it is built, as load_all_accounts does: the
\* entries accepted before the rejected one are already in account_infos at the Err.
ReloadStart_StoresAsBuilt ==
    /\ pc = "idle"
    /\ handler' = "reload"
    /\ \E cfg \in ConfigsOf(env) :
          IF \E i \in DOMAIN cfg : ~KnownExchange(cfg[i])
          THEN /\ Finish("Err")
               /\ ReloadLocalsUnchanged
               /\ account_infos' =
                     [i \in (DOMAIN account_infos) \cup {j \in DOMAIN cfg : KnownExchange(cfg[j])} |->
                         IF i \in DOMAIN cfg /\ KnownExchange(cfg[i])
                         THEN FromConfig(cfg[i]) ELSE account_infos[i]]
          ELSE /\ new_map' = [i \in DOMAIN cfg |-> FromConfig(cfg[i])]
               /\ added' = (DOMAIN cfg) \ (DOMAIN account_infos)
               /\ removed' = (DOMAIN account_infos) \ (DOMAIN cfg)
               /\ retained' = (DOMAIN cfg) \cap (DOMAIN account_infos)
               /\ pc' = "added_loop"
               /\ UNCHANGED <<result, account_infos>>
    /\ UNCHANGED <<task_index, log>>
    /\ CallLocalsUnchanged
    /\ UNCHANGED <<instrument_infos, target_weights, px, orders, msg, env>>

\* Lines 346-357: load, build new_map, take old_ids and new_ids
ReloadStart ==
    /\ pc = "idle"
    /\ handler' = "reload"
    /\ \E cfg \in ConfigsOf(env) :
          IF \E i \in DOMAIN cfg : ~KnownExchange(cfg[i])
          THEN /\ Finish("Err")
               /\ ReloadLocalsUnchanged
          ELSE /\ new_map' = [i \in DOMAIN cfg |-> FromConfig(cfg[i])]
               /\ added' = (DOMAIN cfg) \ (DOMAIN account_infos)
               /\ removed' = (DOMAIN account_infos) \ (DOMAIN cfg)
               /\ retained' = (DOMAIN cfg) \cap (DOMAIN account_infos)
               /\ pc' = "added_loop"
               /\ UNCHANGED result
    /\ UNCHANGED <<account_infos, task_index, log>>
    /\ CallLocalsUnchanged
    /\ PortfolioUnchanged

\* Lines 359-367: for acc_id in new_ids.difference(&old_ids)
AddedLoop ==
    /\ pc = "added_loop"
    /\ IF added = {}
       THEN /\ pc' = "removed_loop"
            /\ UNCHANGED <<account_infos, task_index, log, added, ctx, conn_acc>>
       ELSE \E id \in added :
            LET acc == new_map[id]
                st == Replay(account_infos, task_index, AddAccount(acc), acc)
            IN /\ account_infos' = st.ai
               /\ task_index' = st.ti
               /\ log' = log \o AddAccount(acc)
               /\ added' = added \ {id}
               /\ ctx' = "added"
               /\ conn_acc' = acc
               /\ pc' = "connect"
    /\ UNCHANGED <<handler, new_map, removed, retained, hs_ch, hs_step, disc_acc,
                   disc_todo, result>>
    /\ PortfolioUnchanged

\* Lines 369-377: for acc_id in old_ids.difference(&new_ids)
RemovedLoop ==
    /\ pc = "removed_loop"
    /\ IF removed = {}
       THEN /\ pc' = "retained_loop"
            /\ UNCHANGED <<account_infos, task_index, log, removed, ctx, disc_acc, disc_todo>>
       ELSE \E id \in removed :
            LET old_acc == account_infos[id]
                st == Replay(account_infos, task_index, RemoveAccount(old_acc), old_acc)
            IN /\ account_infos' = st.ai
               /\ task_index' = st.ti
               /\ log' = log \o RemoveAccount(old_acc)
               /\ removed' = removed \ {id}
               /\ ctx' = "removed"
               /\ disc_acc' = old_acc
               /\ disc_todo' = Channels
               /\ pc' = "disconnect"
    /\ UNCHANGED <<handler, new_map, added, retained, conn_acc, hs_ch, hs_step, result>>
    /\ PortfolioUnchanged

\* Lines 379-416: for acc_id in new_ids.intersection(&old_ids), then Ok(())
RetainedLoop ==
    /\ pc = "retained_loop"
    /\ IF retained = {}
       THEN /\ Finish("Ok")
            /\ UNCHANGED <<account_infos, task_index, log, retained, ctx, conn_acc,
                           disc_acc, disc_todo>>
       ELSE \E id \in retained :
            LET new_acc == new_map[id]
                old_acc == account_infos[id]
                st == Replay(account_infos, task_index, ReplaceAccount(old_acc, new_acc),
                             new_acc)
            IN /\ retained' = retained \ {id}
               /\ UNCHANGED result
               /\ IF ConfigChanged(new_acc, old_acc)
                  THEN /\ account_infos' = st.ai
                       /\ task_index' = st.ti
                       /\ log' = log \o ReplaceAccount(old_acc, new_acc)
                       /\ ctx' = "retained"
                       /\ disc_acc' = old_acc
                       /\ disc_todo' = Channels
                       /\ conn_acc' = new_acc
                       /\ pc' = "disconnect"
                  ELSE /\ pc' = "retained_loop"
                       /\ UNCHANGED <<account_infos, task_index, log, ctx, conn_acc,
                                      disc_acc, disc_todo>>
    /\ UNCHANGED <<handler, new_map, added, removed, hs_ch, hs_step>>
    /\ PortfolioUnchanged

-----------------------------------------------------------------------------
(* ws_connect_account and the two handshakes *)

LoopOf(c) == IF c = "added" THEN "added_loop" ELSE "retained_loop"

\* ws_connect_account returned Ok to the loop of reload_accounts that called it.
ConnectReturnsOk ==
    /\ pc' = LoopOf(ctx)
    /\ ctx' = "none"
    /\ conn_acc' = NoAccount
    /\ hs_ch' = "-"
    /\ hs_step' = 0
    /\ UNCHANGED result

\* handle_*_account_event returned Ok: to process_ws_event, which returns Ok, or to
\* ws_connect_account (lines 452-461), which goes on to the second channel or returns
\* Ok.
HandshakeReturnsOk ==
    IF handler = "ws_event"
    THEN /\ Finish("Ok")
         /\ UNCHANGED <<ctx, conn_acc, hs_ch, hs_step>>
    ELSE IF hs_ch = "AccountOrders"
    THEN /\ hs_ch' = "AccountBalAndPos"
         /\ hs_step' = 0
         /\ pc' = "hs_start"
         /\ UNCHANGED <<ctx, conn_acc, result>>
    ELSE ConnectReturnsOk

\* ws_connect_account dropping the Err of a handshake and going on
HandshakeErrIgnored == HandshakeReturnsOk

\* handle_*_account_event returned Err: the `?` of its caller hands it up, through
\* ws_connect_account and reload_accounts or through process_ws_event.
HandshakeReturnsErr ==
    /\ Finish("Err")
    /\ UNCHANGED <<ctx, conn_acc, hs_ch, hs_step>>

\* Lines 447-467: match &acc.client
WsConnectAccount ==
    /\ pc = "connect"
    /\ IF conn_acc.client \in {"BinanceUm", "Okx"}
       THEN /\ hs_ch' = "AccountOrders"
            /\ pc' = "hs_start"
            /\ UNCHANGED <<ctx, conn_acc, hs_step, result>>
       ELSE ConnectReturnsOk
    /\ UNCHANGED <<account_infos, task_index, handler, disc_acc, disc_todo, log>>
    /\ ReloadLocalsUnchanged
    /\ PortfolioUnchanged

\* Lines 188-219 and 234-267: resolve the task id, look the handle up, build the
\* connect message and send the first command.
HandshakeStart ==
    /\ pc = "hs_start"
    /\ LET invoked == Ev("handshake", conn_acc, hs_ch)
       IN IF hs_ch \notin {"AccountOrders", "AccountBalAndPos"}
          THEN /\ log' = log \o <<invoked, Ev("hs_err", conn_acc, hs_ch)>>
               /\ HandshakeReturnsErr
          ELSE IF ~HasHandle(hs_ch, TaskOf(conn_acc, hs_ch))
          THEN /\ log' = log \o <<invoked, Ev("hs_ok", conn_acc, hs_ch)>>
               /\ HandshakeReturnsOk
          ELSE \/ \* get_private_connect_msg fails
                  /\ log' = log \o <<invoked, Ev("msg_err", conn_acc, hs_ch),
                                     Ev("hs_err", conn_acc, hs_ch)>>
                  /\ HandshakeReturnsErr
               \/ /\ log' = log \o <<invoked,
                                     Ev(HandshakeSteps(conn_acc.client)[1], conn_acc, hs_ch)>>
                  /\ hs_step' = 1
                  /\ pc' = "await_ack"
                  /\ UNCHANGED <<ctx, conn_acc, hs_ch, result>>
    /\ UNCHANGED <<account_infos, task_index, handler, disc_acc, disc_todo>>
    /\ ReloadLocalsUnchanged
    /\ PortfolioUnchanged

\* A handshake that does not wait: the next command goes out while the acknowledgement
\* of the one before is still outstanding.
CommandAcked_NoWait ==
    /\ pc = "await_ack"
    /\ LET steps == HandshakeSteps(conn_acc.client)
       IN \/ /\ log' = log \o <<Ev("ack_err", conn_acc, hs_ch), Ev("hs_err", conn_acc, hs_ch)>>
             /\ HandshakeReturnsErr
          \/ /\ hs_step >= Len(steps)
             /\ log' = log \o <<Ev("ack_ok", conn_acc, hs_ch), Ev("hs_ok", conn_acc, hs_ch)>>
             /\ HandshakeReturnsOk
          \/ /\ hs_step < Len(steps)
             /\ log' = Append(log, Ev(steps[hs_step + 1], conn_acc, hs_ch))
             /\ hs_step' = hs_step + 1
             /\ UNCHANGED <<pc, ctx, conn_acc, hs_ch, result>>
    /\ UNCHANGED <<account_infos, task_index, handler, disc_acc, disc_todo>>
    /\ ReloadLocalsUnchanged
    /\ PortfolioUnchanged

\* Lines 217-226 and 265-305: send_command(cmd, ack).await? ends; on success the
\* next message is built and sent, or the handshake is complete.
CommandAcked ==
    /\ pc = "await_ack"
    /\ LET steps == HandshakeSteps(conn_acc.client)
       IN \/ \* the send or the acknowledgement failed
             /\ log' = log \o <<Ev("ack_err", conn_acc, hs_ch), Ev("hs_err", conn_acc, hs_ch)>>
             /\ HandshakeReturnsErr
          \/ /\ hs_step >= Len(steps)
             /\ log' = log \o <<Ev("ack_ok", conn_acc, hs_ch), Ev("hs_ok", conn_acc, hs_ch)>>
             /\ HandshakeReturnsOk
          \/ \* ws_login_msg or get_private_sub_msg fails
             /\ hs_step < Len(steps)
             /\ log' = log \o <<Ev("ack_ok", conn_acc, hs_ch), Ev("msg_err", conn_acc, hs_ch),
                                Ev("hs_err", conn_acc, hs_ch)>>
             /\ HandshakeReturnsErr
          \/ /\ hs_step < Len(steps)
             /\ log' = log \o <<Ev("ack_ok", conn_acc, hs_ch),
                                Ev(steps[hs_step + 1], conn_acc, hs_ch)>>
             /\ hs_step' = hs_step + 1
             /\ UNCHANGED <<pc, ctx, conn_acc, hs_ch, result>>
    /\ UNCHANGED <<account_infos, task_index, handler, disc_acc, disc_todo>>
    /\ ReloadLocalsUnchanged
    /\ PortfolioUnchanged

-----------------------------------------------------------------------------
(* ws_disconnect_account *)

\* Lines 419-445: one turn of `for (channel, task_id) in close_list`, or Ok(())
WsDisconnectAccount ==
    /\ pc = "disconnect"
    /\ IF disc_todo = <<>>
       THEN /\ disc_acc' = NoAccount
            /\ UNCHANGED <<disc_todo, log, result, conn_acc, hs_ch>>
            /\ IF ctx = "removed"
               THEN /\ pc' = "removed_loop"
                    /\ ctx' = "none"
               ELSE /\ pc' = "connect"
                    /\ UNCHANGED ctx
       ELSE LET ch == Head(disc_todo)
            IN IF HasHandle(ch, TaskOf(disc_acc, ch))
               THEN /\ \/ /\ log' = Append(log, Ev("WsShutdown", disc_acc, ch))
                          /\ disc_todo' = Tail(disc_todo)
                          /\ UNCHANGED <<pc, result>>
                       \/ \* send_command(cmd, None).await? fails
                          /\ log' = log \o <<Ev("WsShutdown", disc_acc, ch),
                                             Ev("send_err", disc_acc, ch)>>
                          /\ Finish("Err")
                          /\ UNCHANGED disc_todo
                    /\ UNCHANGED <<ctx, conn_acc, hs_ch, disc_acc>>
               ELSE /\ disc_todo' = Tail(disc_todo)
                    /\ UNCHANGED <<pc, result, log, ctx, conn_acc, hs_ch, disc_acc>>
    /\ UNCHANGED <<account_infos, task_index, handler, hs_step>>
    /\ ReloadLocalsUnchanged
    /\ PortfolioUnchanged

-----------------------------------------------------------------------------
(* Inbound feed-status event *)

EventChannels == {"AccountOrders", "AccountBalAndPos", "Trades"}

\* A routing that hands an event of an unknown task id to every account
AccountFor_Fallback(task_id) ==
    IF task_id \notin DOMAIN task_index THEN DOMAIN account_infos
    ELSE {task_index[task_id]} \cap DOMAIN account_infos

\* task_index.get(&task_id) followed by account_infos.get(account_id): the account an
\* event is routed to, none when either lookup fails
AccountFor(task_id) ==
    IF task_id \notin DOMAIN task_index THEN {}
    ELSE {task_index[task_id]} \cap DOMAIN account_infos

\* on_ws_event -> process_ws_event, lines 91-131
ProcessWsEvent ==
    /\ pc = "idle"
    /\ handler' = "ws_event"
    /\ \E task_id \in TaskIds, channel \in EventChannels :
          /\ msg' = [task_id |-> task_id, channel |-> channel, data |-> <<>>]
          /\ IF AccountFor(task_id) = {}
             THEN /\ Finish("Ok")
                  /\ UNCHANGED <<conn_acc, hs_ch>>
             ELSE LET account == account_infos[CHOOSE id \in AccountFor(task_id) : TRUE]
                  IN IF account.client \in {"BinanceUm", "Okx"}
                     THEN /\ conn_acc' = account
                          /\ hs_ch' = channel
                          /\ pc' = "hs_start"
                          /\ UNCHANGED result
                     ELSE /\ Finish("Ok")
                          /\ UNCHANGED <<conn_acc, hs_ch>>
    /\ UNCHANGED <<account_infos, task_index, ctx, hs_step, disc_acc, disc_todo, log>>
    /\ ReloadLocalsUnchanged
    /\ UNCHANGED <<instrument_infos, target_weights, px, orders, env>>

-----------------------------------------------------------------------------
(* Update tick, predictions, order and position events *)

\* What an event handler leaves alone apart from the accounts and its message
EventFrame ==
    /\ UNCHANGED <<task_index, log, instrument_infos, env>>
    /\ ReloadLocalsUnchanged
    /\ CallLocalsUnchanged

RegistryUnchanged ==
    /\ EventFrame
    /\ UNCHANGED msg

\* on_schedule, lines 45-56: update_accounts, then process_weights
UpdateTick ==
    /\ pc = "idle"
    /\ handler' = "update"
    /\ \E u \in UpdateAccounts(account_infos, DOMAIN account_infos, target_weights,
                               instrument_infos, env, <<>>) :
          \E w \in ProcessWeights(u.ai, DOMAIN u.ai, target_weights, instrument_infos, <<>>) :
             /\ account_infos' = w.ai
             /\ orders' = Via("update_accounts", u.orders) \o Via("process_weights", w.orders)
    /\ Finish("Ok")
    /\ UNCHANGED <<target_weights, px>>
    /\ RegistryUnchanged

\* AccountManager::on_preds: process_weights
OnPreds ==
    /\ pc = "idle"
    /\ handler' = "preds"
    /\ \E w \in ProcessWeights(account_infos, DOMAIN account_infos, target_weights,
                               instrument_infos, <<>>) :
          /\ account_infos' = w.ai
          /\ orders' = Via("process_weights", w.orders)
    /\ Finish("Ok")
    /\ UNCHANGED <<target_weights, px>>
    /\ RegistryUnchanged

\* An order fold that books the order as a holding of the whole equity
WsUpdateAccOrder_Books(acc, order, inst_info) ==
    [acc EXCEPT !.acc_weights = MapPut(@, order.inst, WeightUnit)]

\* AccountInfo::ws_update_acc_order: a log line
WsUpdateAccOrder(acc, order, inst_info) == acc

\* The orders of msg.data folded into the account, lines 149-154
RECURSIVE FoldOrders(_, _, _)
FoldOrders(acc, data, infos) ==
    IF data = <<>> THEN acc
    ELSE LET key == <<Head(data).inst, Head(data).market>>
         IN FoldOrders(IF key \in DOMAIN infos
                       THEN WsUpdateAccOrder(acc, Head(data), infos[key])
                       ELSE acc,
                       Tail(data), infos)

\* on_acc_order -> process_acc_order
ProcessAccOrder ==
    /\ pc = "idle"
    /\ handler' = "acc_order"
    /\ \E task_id \in TaskIds, data \in AccOrderData :
          /\ msg' = [task_id |-> task_id, channel |-> "AccountOrders", data |-> data]
          /\ account_infos' = [id \in DOMAIN account_infos |->
                                  IF id \in AccountFor(task_id)
                                  THEN FoldOrders(account_infos[id], data, instrument_infos)
                                  ELSE account_infos[id]]
    /\ Finish("Ok")
    /\ UNCHANGED <<target_weights, px, orders>>
    /\ EventFrame

\* The positions of msg.data folded into the account, lines 173-180
RECURSIVE FoldPositions(_, _, _, _)
FoldPositions(acc, market, ps, infos) ==
    IF ps = <<>> THEN acc
    ELSE LET key == <<Head(ps).inst, market>>
         IN FoldPositions(IF key \in DOMAIN infos
                          THEN WsUpdateAccPosition(acc, Head(ps), infos[key])
                          ELSE acc,
                          market, Tail(ps), infos)

RECURSIVE FoldBalPos(_, _, _)
FoldBalPos(acc, data, infos) ==
    IF data = <<>> THEN acc
    ELSE FoldBalPos(FoldPositions(acc, Head(data).market, Head(data).positions, infos),
                    Tail(data), infos)

\* on_acc_bal_pos -> process_bal_pos
ProcessBalPos ==
    /\ pc = "idle"
    /\ handler' = "bal_pos"
    /\ \E task_id \in TaskIds, data \in BalPosData(env) :
          /\ msg' = [task_id |-> task_id, channel |-> "AccountBalAndPos", data |-> data]
          /\ account_infos' = [id \in DOMAIN account_infos |->
                                  IF id \in AccountFor(task_id)
                                  THEN FoldBalPos(account_infos[id], data, instrument_infos)
                                  ELSE account_infos[id]]
    /\ Finish("Ok")
    /\ UNCHANGED <<target_weights, px, orders>>
    /\ EventFrame

-----------------------------------------------------------------------------
(* McpServer: the writer of the target table.  It is a strategy of its own; the *)
(* table is read only inside a reconciliation pass, so its handlers are taken   *)
(* between the handlers of AccountManager.                                      *)

\* mcp_mediator, line 93: the instrument of an adjust_position message without inst
DefaultInst == "DOGE_USDT_PERP"

\* McpServer::mcp_mediator on the metadata m: the target-weight table and px after it.
\* An error marker returns Err before the command is read; a missing cmd is "noop".
McpMediator(m, tw, pxs) ==
    LET cmd == IF m.cmd = "-" THEN "noop" ELSE m.cmd
    IN IF m.error \/ cmd # "adjust_position" THEN [tw |-> tw, px |-> pxs]
       ELSE LET inst == IF m.inst = "-" THEN DefaultInst ELSE m.inst
                px_val == IF inst \in DOMAIN pxs THEN pxs[inst] ELSE 0
            IN [tw |-> MapPut(tw, inst, <<px_val, m.target>>),
                px |-> MapPut(pxs, inst, px_val)]

\* McpServer::on_preds -> mcp_mediator
McpOnPreds ==
    /\ pc = "idle"
    /\ \E m \in PredMsgs(env) :
          LET after == McpMediator(m, target_weights, px)
          IN /\ px' = after.px
             /\ target_weights' = after.tw
    /\ UNCHANGED <<account_infos, pc, handler, result, orders>>
    /\ RegistryUnchanged

\* McpServer::on_trade
McpOnTrade ==
    /\ pc = "idle"
    /\ \E t \in Trades(env) : px' = MapPut(px, t.inst, t.price)
    /\ UNCHANGED <<account_infos, pc, handler, result, orders, target_weights>>
    /\ RegistryUnchanged

-----------------------------------------------------------------------------

Next ==
    \/ Initialize
    \/ Return
    \/ ReloadLoadError
    \/ ReloadStart
    \/ AddedLoop
    \/ RemovedLoop
    \/ RetainedLoop
    \/ WsConnectAccount
    \/ HandshakeStart
    \/ CommandAcked
    \/ WsDisconnectAccount
    \/ ProcessWsEvent
    \/ UpdateTick
    \/ OnPreds
    \/ ProcessAccOrder
    \/ ProcessBalPos
    \/ McpOnPreds
    \/ McpOnTrade

Spec == Init /\ [][Next]_vars

-----------------------------------------------------------------------------
(* The program where every load and every reload succeeds on configurations whose *)
(* accounts carry pairwise distinct task ids                                      *)

TasksOf(acc) == {acc.account_orders_task_id, acc.account_bal_pos_task_id}

TaskDisjoint(m) ==
    \A a, b \in DOMAIN m : a # b => TasksOf(m[a]) \cap TasksOf(m[b]) = {}

OkStep ==
    /\ result' # "Err"
    /\ TaskDisjoint(new_map')
    /\ handler' = "initialize" => TaskDisjoint(account_infos')

NextOk == Next /\ OkStep

SpecOk == Init /\ [][NextOk]_vars

-----------------------------------------------------------------------------
(* The program on configurations whose accounts carry pairwise distinct task ids, *)
(* loads and reloads failing or not                                               *)

DisjointStep ==
    /\ TaskDisjoint(new_map')
    /\ handler' = "initialize" => TaskDisjoint(account_infos')

NextDisjoint == Next /\ DisjointStep

SpecDisjoint == Init /\ [][NextDisjoint]_vars

-----------------------------------------------------------------------------
(* One reconciliation cycle from a running portfolio: an OKX and a Binance UM  *)
(* account that hold equity and weights, a target table and a metadata catalog *)
(* in which an instrument may be missing or lack its contract value.  The two   *)
(* accounts start from the same weights.                                       *)

NumReconInstruments == 2

ReconInstruments == {AllInstruments[i] : i \in 1..NumReconInstruments}

ReconEquities == {500, 1000}

\* Half the portfolio less the threshold, and one unit less than that
ReconWeights == {WeightUnit \div 2 - DiffThreshold, WeightUnit \div 2 - DiffThreshold - 1}

ReconWeightTables == UNION {[S -> ReconWeights] : S \in SUBSET ReconInstruments}

\* Tables McpServer can have written: (price, raw weight) per instrument
ReconTargets ==
    UNION {[S -> {0, 10} \X {0, WeightUnit}] : S \in SUBSET ReconInstruments}

ReconCatalogs ==
    LET full == [k \in ReconInstruments \X Markets |-> VenueRules(k[2])]
        first == AllInstruments[1]
    IN {full,
        [k \in (ReconInstruments \ {first}) \X Markets |-> VenueRules(k[2])],
        [full EXCEPT ![<<first, "Okx">>].contract_value = <<>>]}

ReconConfig ==
    (1 :> [account_id |-> 1, exchange |-> "okx",
           account_orders_task_id |-> OrdersTaskId, account_bal_pos_task_id |-> BalPosTaskId])
    @@ (2 :> [account_id |-> 2, exchange |-> "binance_um",
              account_orders_task_id |-> BalPosTaskId + 1,
              account_bal_pos_task_id |-> BalPosTaskId + 1])

InitRecon ==
    /\ \E eq \in [DOMAIN ReconConfig -> ReconEquities], w \in ReconWeightTables :
          account_infos = [id \in DOMAIN ReconConfig |->
                              [FromConfig(ReconConfig[id]) EXCEPT !.total_equity = eq[id],
                                                                  !.acc_weights = w]]
    /\ task_index = LoadAllAccounts(<<ReconConfig[1], ReconConfig[2]>>,
                                    EmptyMap, EmptyMap, <<>>).ti
    /\ pc = "idle"
    /\ handler = "none"
    /\ new_map = EmptyMap
    /\ added = {}
    /\ removed = {}
    /\ retained = {}
    /\ ctx = "none"
    /\ conn_acc = NoAccount
    /\ hs_ch = "-"
    /\ hs_step = 0
    /\ disc_acc = NoAccount
    /\ disc_todo = <<>>
    /\ result = "none"
    /\ log = <<>>
    /\ instrument_infos \in ReconCatalogs
    /\ target_weights \in ReconTargets
    /\ px = EmptyMap
    /\ orders = <<>>
    /\ msg = NoMsg
    /\ env = "trading"

NextRecon ==
    \/ OnPreds
    \/ UpdateTick

SpecRecon == InitRecon /\ [][NextRecon]_vars

-----------------------------------------------------------------------------
(* Properties *)

AccountChannels == {"AccountOrders", "AccountBalAndPos"}

Commands == {"WsConnect", "login", "subscribe"}

Completed == pc \in {"idle", "returned"}

\* C1: once an operation has completed, every key of task_index maps to an account id
\* that is a key of account_infos.
TaskIndexSound ==
    Completed => \A t \in DOMAIN task_index : task_index[t] \in DOMAIN account_infos

\* A reload that removed an account and then failed, index entries remaining.
TaskIndexSoundWitness ==
    /\ pc = "returned" /\ handler = "reload" /\ result = "Err"
    /\ \E i \in DOMAIN log : log[i].ev = "acc_remove"
    /\ DOMAIN task_index # {}

\* C2: after loads and reloads that all returned Ok, every account of account_infos
\* has both of its task ids as keys of task_index, each mapping to its own id.
TaskIndexComplete ==
    Completed =>
        \A id \in DOMAIN account_infos : \A ch \in AccountChannels :
            /\ TaskOf(account_infos[id], ch) \in DOMAIN task_index
            /\ task_index[TaskOf(account_infos[id], ch)] = id

\* C3: in the removal of an account, both of its task_index entries are removed
\* before its record is removed from account_infos.
IndexRemovedBeforeAccount ==
    \A i \in DOMAIN log :
        log[i].ev = "acc_remove" =>
            \A ch \in AccountChannels :
                \E j \in 1..(i - 1) :
                    log[j].ev = "idx_remove" /\ log[j].acc = log[i].acc /\ log[j].ch = ch

\* C4: both task_index entries of a removed or replaced account version are deleted
\* before the first WsShutdown for that account is issued.
ShutdownAfterIndexRemoval ==
    /\ \A i \in DOMAIN log :
          log[i].ev = "WsShutdown" =>
              \A ch \in AccountChannels :
                  \E j \in 1..(i - 1) :
                      /\ log[j].ev = "idx_remove" /\ log[j].acc = log[i].acc /\ log[j].ch = ch
                      /\ ch = log[i].ch => log[j].task = log[i].task
    /\ pc = "disconnect" =>
          \A ch \in AccountChannels : \E j \in DOMAIN log : log[j] = Ev("idx_remove", disc_acc, ch)

\* One reload that shut feeds down for a removed account and for a changed one.
ShutdownAfterIndexRemovalWitness ==
    \E i, j, k, l \in DOMAIN log :
        /\ log[i].ev = "acc_remove" /\ log[j].ev = "WsShutdown" /\ log[j].acc = log[i].acc
        /\ log[k].ev = "acc_replace" /\ log[l].ev = "WsShutdown" /\ log[l].acc = log[k].acc


\* Positions of the log where a handshake for (acc, ch) is invoked
Invocations(acc, ch) ==
    {j \in DOMAIN log : log[j].ev = "handshake" /\ log[j].acc = acc /\ log[j].ch = ch}

ReloadOkMatchesConfig ==
    (pc = "returned" /\ handler = "reload" /\ result = "Ok") =>
        DOMAIN account_infos = DOMAIN new_map

\* A reload that returned Ok having added one account and removed another.
ReloadOkMatchesConfigWitness ==
    /\ pc = "returned" /\ handler = "reload" /\ result = "Ok"
    /\ \E i, j \in DOMAIN log : log[i].ev = "acc_insert" /\ log[j].ev = "acc_remove"

\* C7: a connectivity error during reload_accounts leaves every account of the
\* configuration registered with its configured task ids and every other account
\* removed.
ReloadIsolatesErrors ==
    (pc = "returned" /\ handler = "reload" /\ result = "Err" /\ log # <<>>) =>
        /\ DOMAIN account_infos = DOMAIN new_map
        /\ \A id \in DOMAIN new_map : ~ConfigChanged(new_map[id], account_infos[id])

\* C8: in ws_connect_account no handshake step for the balance/position channel happens
\* unless the order channel's handshake returned success, and a failed handshake is
\* the last thing the call does: the error is returned.
SecondChannelOnlyAfterFirst ==
    handler = "reload" =>
        /\ \A j \in DOMAIN log :
              (log[j].ch = "AccountBalAndPos" /\ log[j].ev \in Commands \cup {"handshake"}) =>
                  \E k \in 1..(j - 1) :
                      /\ log[k].ev = "hs_ok" /\ log[k].acc = log[j].acc
                      /\ log[k].ch = "AccountOrders"
        /\ \A k \in DOMAIN log :
              log[k].ev = "hs_err" => (k = Len(log) /\ pc = "returned" /\ result = "Err")

\* One reload in which an account connected both feeds and another account's order
\* channel handshake failed.
SecondChannelOnlyAfterFirstWitness ==
    /\ handler = "reload"
    /\ \E j, k \in DOMAIN log :
          /\ log[j].ev = "WsConnect" /\ log[j].ch = "AccountBalAndPos"
          /\ log[k].ev = "hs_err" /\ log[k].ch = "AccountOrders"

\* C9: the commands of one OKX handshake are a prefix of connect, login, subscribe:
\* connect is the first step, login follows only an acknowledged connect, subscribe only
\* an acknowledged login, and after a failed acknowledgement or message construction
\* nothing more is sent and Err is returned.
OkxCommandsArePrefix ==
    \A i \in DOMAIN log :
        log[i].client = "Okx" =>
            /\ log[i].ev = "WsConnect" =>
                  (i >= 2 /\ log[i - 1] = [log[i] EXCEPT !.ev = "handshake"])
            /\ log[i].ev = "login" =>
                  /\ i >= 3
                  /\ log[i - 1] = [log[i] EXCEPT !.ev = "ack_ok"]
                  /\ log[i - 2] = [log[i] EXCEPT !.ev = "WsConnect"]
            /\ log[i].ev = "subscribe" =>
                  /\ i >= 3
                  /\ log[i - 1] = [log[i] EXCEPT !.ev = "ack_ok"]
                  /\ log[i - 2] = [log[i] EXCEPT !.ev = "login"]
            /\ log[i].ev \in {"ack_err", "msg_err"} =>
                  /\ i + 1 = Len(log)
                  /\ log[i + 1] = [log[i] EXCEPT !.ev = "hs_err"]
                  /\ pc = "returned" /\ result = "Err"

\* An OKX handshake whose login was not acknowledged.
OkxCommandsArePrefixWitness ==
    \E i \in DOMAIN log :
        /\ i >= 2 /\ log[i].ev = "ack_err" /\ log[i].client = "Okx"
        /\ log[i - 1].ev = "login"

\* The events of the handshake invocation that ends at position i of the log
InvocationEnding(i) ==
    LET starts == {h \in 1..i : log[h].ev = "handshake"}
        h0 == CHOOSE h \in starts : \A g \in starts : g <= h
    IN SubSeq(log, h0, i)

\* C10 as stated: a Binance UM handshake on a channel with a live handle sends exactly
\* one connect command, awaits its acknowledgement, and sends no login or subscribe.
BinanceSendsExactlyOneConnect ==
    \A i \in DOMAIN log :
        (/\ log[i].ev \in {"hs_ok", "hs_err"}
         /\ log[i].client = "BinanceUm"
         /\ HasHandle(log[i].ch, log[i].task)) =>
            LET evs == InvocationEnding(i)
            IN /\ Len(evs) = 4
               /\ evs[2].ev = "WsConnect"
               /\ evs[3].ev \in {"ack_ok", "ack_err"}

\* C10 as amended: a Binance UM handshake on a channel with a live handle sends one
\* connect command and awaits its acknowledgement, or sends nothing when the connect
\* message cannot be built and returns the error; it never sends a login or subscribe.
BinanceSendsAtMostOneConnect ==
    /\ \A i \in DOMAIN log :
          (/\ log[i].ev \in {"hs_ok", "hs_err"}
           /\ log[i].client = "BinanceUm"
           /\ HasHandle(log[i].ch, log[i].task)) =>
              LET evs == InvocationEnding(i)
                  kinds == [n \in DOMAIN evs |-> evs[n].ev]
              IN kinds \in {<<"handshake", "WsConnect", "ack_ok", "hs_ok">>,
                            <<"handshake", "WsConnect", "ack_err", "hs_err">>,
                            <<"handshake", "msg_err", "hs_err">>}
    /\ \A i \in DOMAIN log :
          log[i].client = "BinanceUm" =>
              /\ log[i].ev \notin {"login", "subscribe"}
              /\ log[i].ev = "WsConnect" =>
                    (i >= 2 /\ log[i - 1] = [log[i] EXCEPT !.ev = "handshake"])
              /\ log[i].ev \in {"ack_ok", "ack_err"} =>
                    /\ i >= 2 /\ log[i - 1].ev = "WsConnect"
                    /\ i < Len(log) /\ log[i + 1].ev \in {"hs_ok", "hs_err"}

\* A Binance UM handshake whose connect command was acknowledged.
BinanceSendsAtMostOneConnectWitness ==
    \E i \in DOMAIN log :
        /\ log[i].ev = "ack_ok" /\ log[i].client = "BinanceUm"
        /\ HasHandle(log[i].ch, log[i].task)

\* C11: a handshake on a channel whose task id has no command handle sends no command
\* and returns success, for OKX and for Binance UM.
NoHandleHandshakeIsNoOp ==
    /\ \A i \in DOMAIN log :
          (/\ log[i].ev = "handshake"
           /\ log[i].ch \in AccountChannels
           /\ <<log[i].ch, log[i].task>> \notin WsHandles) =>
              /\ i < Len(log)
              /\ log[i + 1] = [log[i] EXCEPT !.ev = "hs_ok"]
              /\ (handler = "ws_event" /\ pc = "returned") => result = "Ok"
    /\ \A i \in DOMAIN log :
          log[i].ev \in Commands => <<log[i].ch, log[i].task>> \in WsHandles

\* An OKX and a Binance UM handshake on channels without a handle, both returned.
NoHandleHandshakeIsNoOpWitness ==
    \E i, j \in DOMAIN log :
        /\ log[i].ev = "hs_ok" /\ log[i].client = "Okx"
        /\ <<log[i].ch, log[i].task>> \notin WsHandles
        /\ log[j].ev = "hs_ok" /\ log[j].client = "BinanceUm"
        /\ <<log[j].ch, log[j].task>> \notin WsHandles

\* C12 as stated: once the teardown of an account is over, each of its two channels
\* that has a command handle was sent one WsShutdown, whatever happened on the other
\* channel.
TeardownReachesBothChannels ==
    \A i \in DOMAIN log :
        (/\ log[i].ev = "idx_remove"
         /\ <<log[i].ch, log[i].task>> \in WsHandles
         /\ (pc # "disconnect" \/ disc_acc.account_id # log[i].acc)) =>
            Cardinality({j \in DOMAIN log :
                            /\ j > i /\ log[j].ev = "WsShutdown"
                            /\ log[j].acc = log[i].acc /\ log[j].ch = log[i].ch}) = 1

\* The accounts of a running reload that were present before it and whose id and two
\* task ids are the same in the configuration being loaded
RetainedUnchangedIds ==
    {id \in (DOMAIN new_map) \cap (DOMAIN account_infos) :
        /\ handler = "reload"
        /\ ~ConfigChanged(new_map[id], account_infos[id])
        /\ \A i \in DOMAIN log :
              log[i].acc = id => log[i].ev \notin {"acc_insert", "acc_replace"}}

\* C13 as stated: no step of reload_accounts changes the AccountInfo of a retained
\* account whose id and task ids are unchanged, adds or removes a task_index entry
\* mapping one of its task ids to it, or sends a connect or shutdown command for it.
RetainedUnchangedUntouched ==
    [][\A id \in RetainedUnchangedIds :
          /\ id \in DOMAIN account_infos'
          /\ account_infos'[id] = account_infos[id]
          /\ \A ch \in AccountChannels :
                LET t == TaskOf(account_infos[id], ch)
                IN (t \in DOMAIN task_index /\ task_index[t] = id)
                       <=> (t \in DOMAIN task_index' /\ task_index'[t] = id)
          /\ \A i \in DOMAIN log' :
                log'[i].acc = id => log'[i].ev \notin Commands \cup {"WsShutdown"}]_vars

\* C14: for a retained account whose task ids changed, the AccountInfo is replaced, the
\* old task ids are removed from task_index and the new ones inserted, then the
\* shutdown commands go to the old feeds, and only after them the first connect command
\* goes to the new feeds.
ReplaceThenTeardownThenConnect ==
    /\ \A i \in DOMAIN log :
          log[i].ev = "acc_replace" =>
              LET id == log[i].acc
                  kinds == [n \in 1..4 |-> <<log[i + n].ev, log[i + n].ch, log[i + n].acc>>]
              IN /\ i + 4 <= Len(log)
                 /\ kinds = <<<<"idx_remove", "AccountOrders", id>>,
                              <<"idx_remove", "AccountBalAndPos", id>>,
                              <<"idx_insert", "AccountOrders", id>>,
                              <<"idx_insert", "AccountBalAndPos", id>>>>
                 /\ account_infos[id] = new_map[id]
                 /\ log[i + 3].task = new_map[id].account_orders_task_id
                 /\ log[i + 4].task = new_map[id].account_bal_pos_task_id
                 /\ \A j \in DOMAIN log :
                       (log[j].acc = id /\ log[j].ev = "WsShutdown") =>
                           /\ j > i + 4
                           /\ log[j].task = log[IF log[j].ch = "AccountOrders"
                                                THEN i + 1 ELSE i + 2].task
                           /\ \A k \in DOMAIN log :
                                 (log[k].acc = id /\ log[k].ev \in Commands \cup {"handshake"})
                                     => k > j
                 /\ \A k \in DOMAIN log :
                       (log[k].acc = id /\ log[k].ev \in Commands) =>
                           /\ k > i + 4
                           /\ log[k].task = TaskOf(new_map[id], log[k].ch)
    /\ (pc = "disconnect" /\ ctx = "retained") =>
          /\ ConfigChanged(conn_acc, disc_acc)
          /\ \A ch \in AccountChannels :
                /\ TaskOf(conn_acc, ch) \in DOMAIN task_index
                /\ task_index[TaskOf(conn_acc, ch)] = conn_acc.account_id
          /\ \A k \in DOMAIN log :
                log[k].acc = conn_acc.account_id => log[k].ev \notin Commands

\* A reload that replaced an account, shut an old feed down and sent a connect command
\* to a new feed.
ReplaceThenTeardownThenConnectWitness ==
    \E i, j, k \in DOMAIN log :
        /\ log[i].ev = "acc_replace"
        /\ log[j].ev = "WsShutdown" /\ log[j].acc = log[i].acc
        /\ log[k].ev = "WsConnect" /\ log[k].acc = log[i].acc

-----------------------------------------------------------------------------
(* One pass that sizes a single order: one account on either venue, without a  *)
(* position, and one instrument targeted at the whole equity, so that the      *)
(* notional is the equity.  The limits, the lot size, the contract value and   *)
(* the price range over small sets; sizes are in units of 1/QtyUnit.           *)
(* The price may be +inf: it is an f64 taken from the trade feed.              *)

SizingPrices == {0, 3, 10, PositiveInfinity}

SizingEquities == {0, 7, 1000}

SizingRules ==
    [lot_size : {1, 3}, min_lmt_size : {0, 5}, min_mkt_size : {0, 5},
     max_lmt_size : {20, 50 * QtyUnit}, max_mkt_size : {20, 50 * QtyUnit},
     contract_value : {<<>>, <<1>>, <<2>>}]

InitSizing ==
    /\ \E id \in DOMAIN ReconConfig, eq \in SizingEquities :
          /\ account_infos = (id :> [FromConfig(ReconConfig[id]) EXCEPT !.total_equity = eq])
          /\ task_index = LoadAllAccounts(<<ReconConfig[id]>>, EmptyMap, EmptyMap, <<>>).ti
          /\ \E info \in SizingRules :
                instrument_infos =
                    (<<AllInstruments[1], MarketOf(ClientOf(ReconConfig[id]))>> :> info)
    /\ \E price \in SizingPrices :
          target_weights = (AllInstruments[1] :> <<price, WeightUnit>>)
    /\ pc = "idle"
    /\ handler = "none"
    /\ new_map = EmptyMap
    /\ added = {}
    /\ removed = {}
    /\ retained = {}
    /\ ctx = "none"
    /\ conn_acc = NoAccount
    /\ hs_ch = "-"
    /\ hs_step = 0
    /\ disc_acc = NoAccount
    /\ disc_todo = <<>>
    /\ result = "none"
    /\ log = <<>>
    /\ px = EmptyMap
    /\ orders = <<>>
    /\ msg = NoMsg
    /\ env = "trading"

NextSizing == OnPreds

SpecSizing == InitSizing /\ [][NextSizing]_vars

-----------------------------------------------------------------------------
(* Reconciliation: what a pass is expected to do, stated from the state before it *)

\* raw_weight / max(1, n) for the table of the current state
EffectiveTarget(inst) ==
    target_weights[inst][2] \div (IF DOMAIN target_weights = {} THEN 1
                                  ELSE Cardinality(DOMAIN target_weights))

\* The weight an account holds for an instrument, 0 without an entry
HeldWeight(acc, inst) == IF inst \in DOMAIN acc.acc_weights THEN acc.acc_weights[inst] ELSE 0

\* The placement attempts of a trail for one account and instrument
Attempts(os, id, inst) == {n \in DOMAIN os : os[n].acc = id /\ os[n].inst = inst}

\* A step that runs on_preds, a single pass of process_weights
PredsPass == pc = "idle" /\ handler' = "preds"

\* A step that runs a whole handler with reconciliation passes
ReconCycle == pc = "idle" /\ handler' \in {"preds", "update"}

\* C15: in every pass over a table with n entries the effective target of an instrument
\* is raw_weight / max(1, n) for every account: compare_weights computes that value,
\* and a placed order takes the account's weight to it.
TargetIsEqualSplit ==
    [][ReconCycle =>
          /\ \A id \in DOMAIN account_infos :
                LET cmp == CompareWeights(account_infos[id], target_weights)
                IN /\ DOMAIN cmp.targets = DOMAIN target_weights
                   /\ \A inst \in DOMAIN target_weights :
                         cmp.targets[inst] = EffectiveTarget(inst)
          /\ \A n \in DOMAIN orders' :
                orders'[n].placed =>
                    HeldWeight(account_infos'[orders'[n].acc], orders'[n].inst)
                        = EffectiveTarget(orders'[n].inst)]_vars

\* Two instruments of raw weight 1.0 each: both accounts placed an order and hold 0.5
\* of each instrument they bought.
TargetIsEqualSplitWitness ==
    /\ pc = "returned" /\ handler = "preds"
    /\ DOMAIN target_weights = ReconInstruments
    /\ Cardinality(ReconInstruments) = 2
    /\ \A inst \in ReconInstruments : target_weights[inst][2] = WeightUnit
    /\ \A id \in DOMAIN account_infos :
          /\ \E n \in DOMAIN orders : orders[n].acc = id /\ orders[n].placed
          /\ \A n \in DOMAIN orders :
                (orders[n].acc = id /\ orders[n].placed) =>
                    account_infos[id].acc_weights[orders[n].inst] = WeightUnit \div 2

\* effective target less the weight held, before the pass
PassDiff(acc, inst) == EffectiveTarget(inst) - HeldWeight(acc, inst)

\* The venue's metadata lets an order for the instrument be sized
CanSize(acc, inst) ==
    LET key == <<inst, MarketOf(acc.client)>>
    IN /\ acc.client \in {"Okx", "BinanceUm"}
       /\ key \in DOMAIN instrument_infos
       /\ acc.client = "Okx" => instrument_infos[key].contract_value # <<>>

\* |diff| * total_equity is at least 6.0
AboveFloor(acc, inst) ==
    Abs(PassDiff(acc, inst) * acc.total_equity) >= BinanceMinNotional * WeightUnit

\* C16: an instrument is actionable in a pass iff |effective target - current weight|
\* is strictly greater than 0.01, the current weight being 0 without an entry: only an
\* actionable instrument gets an order, and an actionable one gets an order whenever it
\* can be sized and is not under the Binance floor.
ThresholdIsStrict ==
    [][PredsPass =>
          \A id \in DOMAIN account_infos, inst \in ReconInstruments :
              LET acc == account_infos[id]
                  over == /\ inst \in DOMAIN target_weights
                          /\ Abs(PassDiff(acc, inst)) > DiffThreshold
              IN /\ Attempts(orders', id, inst) # {} => over
                 /\ (/\ over
                     /\ CanSize(acc, inst)
                     /\ acc.client = "BinanceUm" => AboveFloor(acc, inst))
                        => Attempts(orders', id, inst) # {}
                 /\ inst \in DOMAIN CompareWeights(acc, target_weights).diffs <=> over]_vars

\* After a pass: an account that is exactly 0.01 under the target of one instrument and
\* has no order for it, and is 0.0101 under the target of another and has an order for
\* it (a rejected one, so the weight still shows).
ThresholdIsStrictWitness ==
    /\ pc = "returned" /\ handler = "preds"
    /\ \E id \in DOMAIN account_infos : \E a, b \in DOMAIN target_weights :
          /\ HeldWeight(account_infos[id], a) = EffectiveTarget(a) - DiffThreshold
          /\ Attempts(orders, id, a) = {}
          /\ HeldWeight(account_infos[id], b) = EffectiveTarget(b) - DiffThreshold - 1
          /\ Attempts(orders, id, b) # {}

\* C17: a placed order increases the account's weight for the instrument by exactly diff
\* within the pass, so that it equals the effective target; an instrument that is skipped
\* or whose placement is rejected keeps its weight, and its entry if it had none.
WeightFollowsPlacement ==
    [][PredsPass =>
          \A id \in DOMAIN account_infos, inst \in ReconInstruments :
              LET acc == account_infos[id]
                  after == account_infos'[id]
                  att == Attempts(orders', id, inst)
              IN /\ Cardinality(att) <= 1
                 /\ IF \E n \in att : orders'[n].placed
                    THEN /\ inst \in DOMAIN after.acc_weights
                         /\ after.acc_weights[inst] = HeldWeight(acc, inst) + PassDiff(acc, inst)
                         /\ after.acc_weights[inst] = EffectiveTarget(inst)
                    ELSE /\ inst \in DOMAIN after.acc_weights <=> inst \in DOMAIN acc.acc_weights
                         /\ HeldWeight(after, inst) = HeldWeight(acc, inst)]_vars

\* After a pass an account holds the target of an instrument whose order was placed and,
\* for another instrument whose order was rejected, the weight it had; a second account
\* holds a weight for which no order was attempted.
WeightFollowsPlacementWitness ==
    /\ pc = "returned" /\ handler = "preds"
    /\ \E id, other \in DOMAIN account_infos : \E n, m \in DOMAIN orders :
          /\ orders[n].acc = id /\ orders[n].placed
          /\ HeldWeight(account_infos[id], orders[n].inst) = EffectiveTarget(orders[n].inst)
          /\ orders[m].acc = id /\ ~orders[m].placed
          /\ HeldWeight(account_infos[id], orders[m].inst)
                = EffectiveTarget(orders[m].inst) - DiffThreshold - 1
          /\ \E inst \in DOMAIN target_weights :
                /\ Attempts(orders, other, inst) = {}
                /\ HeldWeight(account_infos[other], inst)
                      = EffectiveTarget(inst) - DiffThreshold - 1

\* The cycle outcome in which every account ends as its own outcome in f says
RECURSIVE JoinOutcomes(_, _, _, _)
JoinOutcomes(f, todo, ai, os) ==
    IF todo = {} THEN [ai |-> ai, orders |-> os]
    ELSE LET id == CHOOSE i \in todo : \A j \in todo : i <= j
         IN JoinOutcomes(f, todo \ {id}, [ai EXCEPT ![id] = f[id].acc], os \o f[id].orders)

\* Every way of giving each account one of its own outcomes
CombinedOutcomes(own) ==
    {JoinOutcomes(f, DOMAIN own, account_infos, <<>>)
        : f \in {g \in [DOMAIN own -> UNION {own[id] : id \in DOMAIN own}] :
                    \A id \in DOMAIN own : g[id] \in own[id]}}

\* C18: a failure on one instrument never keeps the other actionable instruments of the
\* account from being processed, and a failure of one account never keeps the other
\* accounts from being processed.  After a cycle every targeted instrument left without
\* a placement attempt is one that is not actionable, cannot be sized or is under the
\* Binance floor, whatever happened to the others; and before a cycle the outcomes of
\* update_accounts are exactly the combinations of the accounts' own refresh and
\* reconciliation outcomes.
FailuresAreIsolated ==
    /\ (pc = "returned" /\ handler \in {"preds", "update"}) =>
          \A id \in DOMAIN account_infos, inst \in DOMAIN target_weights :
              Attempts(orders, id, inst) = {} =>
                  ~(/\ Abs(PassDiff(account_infos[id], inst)) > DiffThreshold
                    /\ CanSize(account_infos[id], inst)
                    /\ account_infos[id].client = "BinanceUm"
                          => AboveFloor(account_infos[id], inst))
    /\ pc = "idle" =>
          UpdateAccounts(account_infos, DOMAIN account_infos, target_weights,
                         instrument_infos, env, <<>>)
             = CombinedOutcomes([id \in DOMAIN account_infos |->
                                    UpdateAccount(account_infos[id], target_weights,
                                                  instrument_infos, env)])

\* After an update tick: the balance refresh of the first account failed (no reply
\* carries the equity it still has), and the second account had a placement rejected
\* and went on to attempt another instrument.
FailuresAreIsolatedWitness ==
    /\ pc = "returned" /\ handler = "update"
    /\ \E id, other \in DOMAIN account_infos :
          /\ id < other
          /\ \A b \in BalanceReplies(env) : \A n \in DOMAIN b.balances :
                b.balances[n].total # account_infos[id].total_equity
          /\ \E n, m \in DOMAIN orders :
                /\ n < m
                /\ orders[n].acc = other /\ ~orders[n].placed
                /\ orders[n].via = "update_accounts"
                /\ orders[m].acc = other /\ orders[m].inst # orders[n].inst
                /\ orders[m].via = "update_accounts"

\* C19: on a Binance UM account an actionable instrument whose notional
\* |diff| * total_equity is below 6.0 gets no order and keeps its weight; on an OKX
\* account an actionable instrument that can be sized gets an order whatever its notional.
BinanceFloorOnly ==
    [][PredsPass =>
          \A id \in DOMAIN account_infos, inst \in DOMAIN target_weights :
              LET acc == account_infos[id]
                  after == account_infos'[id]
              IN /\ (acc.client = "BinanceUm" /\ ~AboveFloor(acc, inst)) =>
                        /\ Attempts(orders', id, inst) = {}
                        /\ inst \in DOMAIN after.acc_weights <=> inst \in DOMAIN acc.acc_weights
                        /\ HeldWeight(after, inst) = HeldWeight(acc, inst)
                 /\ (/\ acc.client = "Okx"
                     /\ Abs(PassDiff(acc, inst)) > DiffThreshold
                     /\ CanSize(acc, inst))
                        => Attempts(orders', id, inst) # {}]_vars

\* After a pass: an OKX and a Binance UM account of the same equity hold the same weight
\* of an instrument, 0.0101 under its target, a notional under 6.0; the OKX account has an
\* order for it (rejected, so the weight still shows) and the Binance account has none.
BinanceFloorOnlyWitness ==
    /\ pc = "returned" /\ handler = "preds"
    /\ \E o, b \in DOMAIN account_infos : \E inst \in DOMAIN target_weights :
          /\ account_infos[o].client = "Okx" /\ account_infos[b].client = "BinanceUm"
          /\ account_infos[o].total_equity = account_infos[b].total_equity
          /\ HeldWeight(account_infos[o], inst) = HeldWeight(account_infos[b], inst)
          /\ Abs(PassDiff(account_infos[b], inst)) > DiffThreshold
          /\ ~AboveFloor(account_infos[b], inst)
          /\ Attempts(orders, o, inst) # {}
          /\ Attempts(orders, b, inst) = {}

SizingErrorsSubmitNoOrder ==
    [][PredsPass =>
          \A id \in DOMAIN account_infos, inst \in DOMAIN target_weights :
              LET acc == account_infos[id]
                  key == <<inst, MarketOf(acc.client)>>
              IN (\/ /\ acc.client = "Okx"
                     /\ key \in DOMAIN instrument_infos
                     /\ instrument_infos[key].contract_value = <<>>
                  \/ target_weights[inst][1] = PositiveInfinity)
                    => Attempts(orders', id, inst) = {}]_vars

\* The summed notional of the positions of a reply in one instrument
RECURSIVE SummedNotional(_, _, _)
SummedNotional(acc, ps, inst) ==
    IF ps = <<>> THEN 0
    ELSE SummedNotional(acc, Tail(ps), inst)
         + (IF Head(ps).inst # inst THEN 0
            ELSE Head(ps).size * Head(ps).mark_price
                 * (CASE acc.client = "BinanceUm" -> 1
                      [] acc.client = "Okx" ->
                            IF <<inst, "Okx">> \notin DOMAIN instrument_infos THEN 0
                            ELSE IF instrument_infos[<<inst, "Okx">>].contract_value = <<>> THEN 1
                            ELSE instrument_infos[<<inst, "Okx">>].contract_value[1]
                      [] OTHER -> 0))

\* The weights of acc are those of a successful refresh on the position list ps
RefreshedFrom(acc, ps) ==
    /\ DOMAIN acc.acc_weights = {ps[n].inst : n \in DOMAIN ps}
    /\ \A inst \in DOMAIN acc.acc_weights :
          acc.acc_weights[inst] =
              IF acc.total_equity > 0
              THEN (SummedNotional(acc, ps, inst) * WeightUnit) \div acc.total_equity
              ELSE 0

\* An update tick with an empty target table: no order is placed, so what the tick
\* leaves in an account is what its two refreshes left.
RefreshOnlyTick == pc = "idle" /\ handler' = "update" /\ DOMAIN target_weights = {}

\* C22: after a successful rest_update_acc_pos_weight the key set of the weights is the
\* set of instruments of the fetched position list, weights of absent instruments being
\* removed, and each weight is the instrument's summed notional divided by total_equity,
\* or 0 when the equity is not above epsilon.  An account a refresh-only tick has changed
\* beyond its equity holds the weights of one of the position lists the venue can return.
PosRefreshReplacesWeights ==
    [][RefreshOnlyTick =>
          \A id \in DOMAIN account_infos :
              LET acc == account_infos[id]
                  after == account_infos'[id]
              IN \/ after = [acc EXCEPT !.total_equity = after.total_equity]
                 \/ \E reply \in PositionReplies(env) :
                       reply.ok /\ RefreshedFrom(after, reply.positions)]_vars

\* After a refresh-only tick an account that held two instruments (every account of the
\* cycle starts with the same weights, and another account still holds both) holds one
\* instrument only, at the summed notional of two positions over its equity.
PosRefreshReplacesWeightsWitness ==
    /\ pc = "returned" /\ handler = "update" /\ DOMAIN target_weights = {}
    /\ \E id, other \in DOMAIN account_infos :
          /\ Cardinality(DOMAIN account_infos[other].acc_weights) = 2
          /\ Cardinality(DOMAIN account_infos[id].acc_weights) = 1
          /\ DOMAIN account_infos[id].acc_weights \subseteq DOMAIN account_infos[other].acc_weights
          /\ account_infos[id].total_equity > 0
          /\ \E reply \in PositionReplies(env) :
                /\ Len(reply.positions) = 2
                /\ RefreshedFrom(account_infos[id], reply.positions)
                /\ \A inst \in DOMAIN account_infos[id].acc_weights :
                      account_infos[id].acc_weights[inst] > 0

\* The totals of the USDT entries the venue can return
UsdtTotals ==
    {b.balances[n].total : b \in {r \in BalanceReplies(env) : r.ok /\ r.balances # <<>>},
                           n \in {1}}

\* C23: rest_update_acc_balance sets total_equity to the total of the USDT entry; when
\* the fetch fails or no USDT entry is returned it is an error that leaves total_equity
\* and the weights unchanged.  On each reply the venue can give the function does so, and
\* an account that a refresh-only tick leaves with an equity no reply carries is
\* unchanged altogether.
BalanceRefreshSetsEquity ==
    [][RefreshOnlyTick =>
          \A id \in DOMAIN account_infos :
              LET acc == account_infos[id]
                  after == account_infos'[id]
              IN /\ \A reply \in BalanceReplies(env) :
                       LET r == RestUpdateAccBalance(acc, reply)
                           found == reply.ok /\ \E n \in DOMAIN reply.balances :
                                       reply.balances[n].asset \in {"USDT", "usdt"}
                       IN IF found
                          THEN /\ r.ok
                               /\ r.acc.total_equity \in UsdtTotals
                               /\ r.acc = [acc EXCEPT !.total_equity = reply.balances[1].total]
                          ELSE ~r.ok /\ r.acc = acc
                 /\ after.total_equity # acc.total_equity => after.total_equity \in UsdtTotals
                 /\ after.total_equity \notin UsdtTotals => after = acc]_vars

\* After a refresh-only tick: one account still has an equity that no reply carries and
\* two held instruments, which no position list holds (its balance refresh failed), and
\* another has the equity of a reply, which is not an equity an account starts with.
BalanceRefreshSetsEquityWitness ==
    /\ pc = "returned" /\ handler = "update" /\ DOMAIN target_weights = {}
    /\ \E id, other \in DOMAIN account_infos :
          /\ account_infos[id].total_equity \notin UsdtTotals
          /\ Cardinality(DOMAIN account_infos[id].acc_weights) = 2
          /\ account_infos[other].total_equity \in UsdtTotals \ ReconEquities

\* A step that takes an order, a position or a feed-status event
EventStep == pc = "idle" /\ handler' \in {"ws_event", "acc_order", "bal_pos"}

\* C24: an order, position or feed-status event whose task id has no task_index entry,
\* or whose mapped account id is missing, is handled without failure, sends no command
\* and leaves account_infos, every AccountInfo and task_index unchanged.
UnroutedEventIsIgnored ==
    [][(/\ EventStep
        /\ \/ msg'.task_id \notin DOMAIN task_index
           \/ task_index[msg'.task_id] \notin DOMAIN account_infos) =>
          /\ pc' = "returned"
          /\ result' = "Ok"
          /\ account_infos' = account_infos
          /\ task_index' = task_index
          /\ log' = log]_vars

\* A position event with a position in it came with a task id that has no entry while
\* an account was registered.
UnroutedEventIsIgnoredWitness ==
    /\ pc = "returned" /\ handler = "bal_pos"
    /\ msg.task_id \notin DOMAIN task_index
    /\ \E n \in DOMAIN msg.data : msg.data[n].positions # <<>>
    /\ DOMAIN account_infos # {}

\* C25: folding an order-update event, for any task id and any list of orders, leaves
\* the weights, the mark prices and the total_equity of every account unchanged.
OrderEventKeepsPortfolio ==
    [][(pc = "idle" /\ handler' = "acc_order") =>
          /\ DOMAIN account_infos' = DOMAIN account_infos
          /\ \A id \in DOMAIN account_infos :
                /\ account_infos'[id].acc_weights = account_infos[id].acc_weights
                /\ account_infos'[id].inst_mark_price = account_infos[id].inst_mark_price
                /\ account_infos'[id].total_equity = account_infos[id].total_equity]_vars

\* An order event was routed to an account and named an instrument with metadata, so
\* that ws_update_acc_order ran.
OrderEventKeepsPortfolioWitness ==
    /\ pc = "returned" /\ handler = "acc_order"
    /\ msg.task_id \in DOMAIN task_index
    /\ task_index[msg.task_id] \in DOMAIN account_infos
    /\ \E n \in DOMAIN msg.data :
          <<msg.data[n].inst, msg.data[n].market>> \in DOMAIN instrument_infos

\* The positions of a position event, in order, each with the market of its entry
RECURSIVE EventPositions(_)
EventPositions(data) ==
    IF data = <<>> THEN <<>>
    ELSE [n \in DOMAIN Head(data).positions |->
             [market |-> Head(data).market, pos |-> Head(data).positions[n]]]
         \o EventPositions(Tail(data))

\* size * price * multiplier / total_equity for a position folded into acc, the price
\* being the recorded mark price or else the average price of the event
EventWeight(acc, pos) ==
    LET price == IF pos.inst \in DOMAIN acc.inst_mark_price
                 THEN acc.inst_mark_price[pos.inst] ELSE pos.avg_price
        key == <<pos.inst, "Okx">>
        multiplier == IF acc.client = "Okx" /\ key \in DOMAIN instrument_infos
                         /\ instrument_infos[key].contract_value # <<>>
                      THEN instrument_infos[key].contract_value[1] ELSE 1
    IN IF acc.total_equity > 0
       THEN (pos.size * price * multiplier * WeightUnit) \div acc.total_equity
       ELSE 0

\* C26 as stated: a position event routed to an account sets the weight of every
\* instrument it names to size * price * multiplier / total_equity (0 without equity) and
\* changes nothing but that account and those instruments.
PositionEventSetsWeights ==
    [][(/\ pc = "idle" /\ handler' = "bal_pos"
        /\ msg'.task_id \in DOMAIN task_index
        /\ task_index[msg'.task_id] \in DOMAIN account_infos) =>
          LET owner == task_index[msg'.task_id]
              ps == EventPositions(msg'.data)
              named == {ps[n].pos.inst : n \in DOMAIN ps}
              acc == account_infos[owner]
              after == account_infos'[owner]
          IN /\ \A id \in DOMAIN account_infos \ {owner} :
                   account_infos'[id] = account_infos[id]
             /\ after = [acc EXCEPT !.acc_weights = after.acc_weights]
             /\ DOMAIN after.acc_weights = DOMAIN acc.acc_weights \cup named
             /\ \A inst \in DOMAIN acc.acc_weights \ named :
                   after.acc_weights[inst] = acc.acc_weights[inst]
             /\ \A inst \in named :
                   \E n \in DOMAIN ps :
                       /\ ps[n].pos.inst = inst
                       /\ after.acc_weights[inst] = EventWeight(acc, ps[n].pos)]_vars

\* C27 as stated: within one update tick an order is attempted at most once for each
\* account and instrument.
NoRetryWithinTick ==
    (pc = "returned" /\ handler = "update") =>
        \A id \in DOMAIN account_infos, inst \in DOMAIN target_weights :
            Cardinality(Attempts(orders, id, inst)) <= 1

\* C29 as stated: an account whose balance or position refresh failed in an update tick
\* has no order submitted for it during that tick.  An account that ends the tick with
\* an equity no balance reply carries is one whose balance refresh failed.
NoOrderWithoutRefresh ==
    (pc = "returned" /\ handler = "update") =>
        \A id \in DOMAIN account_infos :
            account_infos[id].total_equity \notin UsdtTotals => {n \in DOMAIN orders : orders[n].acc = id} = {}

\* C28: a reload_accounts call that cannot load the configuration, or meets an entry
\* naming an unknown venue, returns at once with Err: account_infos with every
\* AccountInfo in it and task_index are as before the call and nothing was sent (the
\* trail of map statements and commands is as before the call).  A call that goes on
\* has built new_map from known venues only.
ReloadRejectChangesNothing ==
    [][(pc = "idle" /\ handler' = "reload") =>
          \/ /\ pc' = "returned"
             /\ result' = "Err"
             /\ account_infos' = account_infos
             /\ task_index' = task_index
             /\ log' = log
             /\ new_map' = new_map
          \/ /\ pc' = "added_loop"
             /\ \A i \in DOMAIN new_map' : new_map'[i].client \in {"Okx", "BinanceUm", "BinanceCm"}
             /\ account_infos' = account_infos
             /\ task_index' = task_index]_vars

\* C28 happens: a reload of a manager holding accounts returned Err before building or
\* sending anything.
ReloadRejectChangesNothingWitness ==
    /\ pc = "returned"
    /\ handler = "reload"
    /\ result = "Err"
    /\ log = <<>>
    /\ new_map = EmptyMap
    /\ DOMAIN account_infos # {}

-----------------------------------------------------------------------------
(* The registry operations under the assumption that every command sent is    *)
(* eventually acknowledged or fails, and that a task that can run does run    *)

NextRegistry ==
    \/ Initialize
    \/ Return
    \/ ReloadLoadError
    \/ ReloadStart
    \/ AddedLoop
    \/ RemovedLoop
    \/ RetainedLoop
    \/ WsConnectAccount
    \/ HandshakeStart
    \/ CommandAcked
    \/ WsDisconnectAccount
    \/ ProcessWsEvent

\* send_command(..).await ends (CommandAcked, WsDisconnectAccount); the issuing task
\* runs from one await to the next.
RegistryFairness ==
    /\ WF_vars(CommandAcked)
    /\ WF_vars(WsDisconnectAccount)
    /\ WF_vars(HandshakeStart)
    /\ WF_vars(WsConnectAccount)
    /\ WF_vars(AddedLoop)
    /\ WF_vars(RemovedLoop)
    /\ WF_vars(RetainedLoop)

\* The configurations are those whose accounts carry pairwise distinct task ids.
NextRegistryFair == NextRegistry /\ DisjointStep

SpecRegistryFair == Init /\ [][NextRegistryFair]_vars /\ RegistryFairness

\* A reload_accounts call or a handshake is running.
InFlight ==
    pc \in {"added_loop", "removed_loop", "retained_loop", "connect", "hs_start",
            "await_ack", "disconnect"}

\* In the trail a handshake command is directly followed by its own acknowledgement
\* (or its failure), and the handshake waits exactly when the trail ends with a command.
OneCommandOutstanding ==
    /\ \A n \in 1..(Len(log) - 1) :
          log[n].ev \in Commands =>
              /\ log[n + 1].ev \in {"ack_ok", "ack_err"}
              /\ log[n + 1].acc = log[n].acc
              /\ log[n + 1].ch = log[n].ch
    /\ pc = "await_ack" <=> (log # <<>> /\ log[Len(log)].ev \in Commands)

\* C30: if every command sent is eventually acknowledged or fails, every handshake and
\* every reload_accounts call that is running eventually returns, and at all times the
\* handshake sends no command while the acknowledgement of an earlier one is outstanding.
AckedHandshakesComplete ==
    /\ [](OneCommandOutstanding)
    /\ InFlight ~> (pc = "returned")

\* C30 happens: a reload returned Ok after a handshake of several commands, each
\* acknowledged before the next was sent.
AckedHandshakesCompleteWitness ==
    /\ pc = "returned"
    /\ handler = "reload"
    /\ result = "Ok"
    /\ Cardinality({n \in DOMAIN log : log[n].ev = "ack_ok"}) >= 3
    /\ \E n \in DOMAIN log : log[n].ev = "hs_ok"

\* C31 as stated: within one reload_accounts call no WsShutdown goes to a task id after a
\* WsConnect went to that task id for an account of the new configuration.
NoShutdownAfterConnect ==
    handler = "reload" =>
        \A i, j \in DOMAIN log :
            (/\ i < j
             /\ log[i].ev = "WsConnect"
             /\ log[i].acc \in DOMAIN new_map
             /\ log[j].ev = "WsShutdown")
                => log[j].task # log[i].task

-----------------------------------------------------------------------------
(* The registry operations with the trail kept from one call to the next, for a *)
(* bounded number of calls                                                      *)

MaxCalls == 3

\* The mark a return of the running handler leaves in the trail
ReturnMark(res) == [ev |-> "return", acc |-> 0, ch |-> res, client |-> "-", task |-> 0]

Returns(trail) == {n \in DOMAIN trail : trail[n].ev = "return"}

\* The host takes the next event; the trail goes on.
ReturnKeepingTrail ==
    /\ pc = "returned"
    /\ Cardinality(Returns(log)) < MaxCalls - 1
    /\ pc' = "idle"
    /\ handler' = "none"
    /\ new_map' = EmptyMap
    /\ added' = {}
    /\ removed' = {}
    /\ retained' = {}
    /\ ctx' = "none"
    /\ conn_acc' = NoAccount
    /\ hs_ch' = "-"
    /\ hs_step' = 0
    /\ disc_acc' = NoAccount
    /\ disc_todo' = <<>>
    /\ result' = "none"
    /\ log' = Append(log, ReturnMark(result))
    /\ orders' = <<>>
    /\ msg' = NoMsg
    /\ UNCHANGED <<account_infos, task_index, instrument_infos, target_weights, px, env>>

NextTrail ==
    \/ Initialize
    \/ ReturnKeepingTrail
    \/ ReloadLoadError
    \/ ReloadStart
    \/ AddedLoop
    \/ RemovedLoop
    \/ RetainedLoop
    \/ WsConnectAccount
    \/ HandshakeStart
    \/ CommandAcked
    \/ WsDisconnectAccount

MaxTrailAccounts == 1

\* The configurations read hold at most MaxTrailAccounts entries.
TrailStep ==
    /\ Cardinality(DOMAIN new_map') <= MaxTrailAccounts
    /\ handler' = "initialize" => Cardinality(DOMAIN account_infos') <= MaxTrailAccounts

NextTrailBounded == NextTrail /\ TrailStep

SpecTrail == Init /\ [][NextTrailBounded]_vars

\* The place of the last return in the trail, 0 when the first call is running
LastReturn(trail) ==
    IF Returns(trail) = {} THEN 0
    ELSE CHOOSE n \in Returns(trail) : \A m \in Returns(trail) : m <= n

\* C32 as stated: when an account was added by an earlier reload_accounts call whose
\* connect handshake for it failed, and the account has stayed as it was added, a later
\* reload_accounts call that finds the same entry for it in the configuration and
\* returns Ok has attempted the connect handshake for that account.
FailedConnectIsRetried ==
    (pc = "returned" /\ handler = "reload" /\ result = "Ok") =>
        \A id \in (DOMAIN new_map) \cap (DOMAIN account_infos) :
            \A i, j \in 1..LastReturn(log) :
                (/\ i < j
                 /\ log[i].ev = "acc_insert" /\ log[i].acc = id
                 /\ log[j].ev = "hs_err" /\ log[j].acc = id
                 /\ \A n \in i..Len(log) :
                       log[n].acc = id => log[n].ev \notin {"acc_remove", "acc_replace", "hs_ok"}
                 /\ ~ConfigChanged(new_map[id], account_infos[id])
                 /\ new_map[id].client = account_infos[id].client)
                    => \E k \in (LastReturn(log) + 1)..Len(log) :
                          log[k].ev = "handshake" /\ log[k].acc = id

\* C33 as stated: no order is submitted for an account whose total_equity is 0.
NoOrderAtZeroEquity ==
    \A n \in DOMAIN orders :
        orders[n].acc \in DOMAIN account_infos =>
            account_infos[orders[n].acc].total_equity # 0

\* C34 as stated: no order is submitted for an instrument whose price in the
\* target-weight table is 0.
NoOrderAtZeroPrice ==
    \A n \in DOMAIN orders :
        orders[n].inst \in DOMAIN target_weights => target_weights[orders[n].inst][1] # 0

\* C35: reconciliation is idempotent on an unchanged table.  When every order a pass (of
\* on_preds or of the update tick) attempted was placed, a pass of any account that
\* follows at once, on the same targets, metadata and weights, has one outcome: no order
\* and the account as it is.
ReconIsIdempotent ==
    [][(ReconCycle /\ \A n \in DOMAIN orders' : orders'[n].placed) =>
          \A id \in DOMAIN account_infos' :
              ProcessWeight(account_infos'[id], target_weights', instrument_infos')
                  = {[acc |-> account_infos'[id], orders |-> <<>>]}]_vars

\* C35 happens: a pass of on_preds placed every order it attempted, one at least, and
\* the account holds the weight it ordered.
ReconIsIdempotentWitness ==
    /\ pc = "returned"
    /\ handler = "preds"
    /\ orders # <<>>
    /\ \A n \in DOMAIN orders : orders[n].placed
    /\ \E id \in DOMAIN account_infos :
          \E inst \in DOMAIN target_weights : HeldWeight(account_infos[id], inst) # 0

\* C36: a reconciliation pass orders and changes weights only where the target-weight
\* table has an entry.  For an instrument without a target entry the pass of on_preds
\* attempts no order for any account, and every account's weight entry for it, present
\* or absent, is as before the pass.
UntargetedIsUntouched ==
    [][PredsPass =>
          \A id \in DOMAIN account_infos :
              /\ \A n \in DOMAIN orders' : orders'[n].inst \in DOMAIN target_weights
              /\ \A inst \in ((DOMAIN account_infos[id].acc_weights)
                              \cup (DOMAIN account_infos'[id].acc_weights)) \ DOMAIN target_weights :
                    /\ Attempts(orders', id, inst) = {}
                    /\ inst \in DOMAIN account_infos'[id].acc_weights
                          <=> inst \in DOMAIN account_infos[id].acc_weights
                    /\ HeldWeight(account_infos'[id], inst) = HeldWeight(account_infos[id], inst)]_vars

\* C36 happens: a pass of on_preds ordered a targeted instrument for an account that
\* holds an instrument without a target entry.
UntargetedIsUntouchedWitness ==
    /\ pc = "returned"
    /\ handler = "preds"
    /\ \E n \in DOMAIN orders :
          /\ orders[n].placed
          /\ \E inst \in (DOMAIN account_infos[orders[n].acc].acc_weights) \ DOMAIN target_weights :
                account_infos[orders[n].acc].acc_weights[inst] # 0

\* C37 as stated: a prediction message with an error marker, without a command or with
\* an unrecognised command leaves the target-weight table as it is, and every change of
\* the table by the model server is the work of an adjust_position message that names
\* the instrument whose entry changes: that entry becomes (last seen price, requested
\* weight), every other entry stays and none is removed.
MediatorChangesNamedEntry ==
    [][(pc = "idle" /\ pc' = "idle") =>
          /\ \A m \in PredMsgs(env) :
                (m.error \/ m.cmd \in {"-", "other"}) =>
                    McpMediator(m, target_weights, px).tw = target_weights
          /\ \/ target_weights' = target_weights
             \/ \E m \in PredMsgs(env) :
                   /\ ~m.error
                   /\ m.cmd = "adjust_position"
                   /\ m.inst \in Instruments
                   /\ target_weights' =
                         MapPut(target_weights, m.inst,
                                <<IF m.inst \in DOMAIN px THEN px[m.inst] ELSE 0, m.target>>)]_vars

====
